---- MODULE Spec2Model ----
(***************************************************************************)
(* Model of the website build tools: the navigation next-page resolver     *)
(* (next_page_resolver.js) and the tools around it.                        *)
(*                                                                         *)
(* JavaScript values are tagged records:                                   *)
(*   [t |-> "str",  s |-> name]          a string (a Leaf of the tree)     *)
(*   [t |-> "arr",  a |-> <<...>>]       an array (a sequence / a result)  *)
(*   [t |-> "obj",  e |-> <<entry,...>>] a plain object, own entries in    *)
(*                                       insertion order (a GroupSet);     *)
(*                                       entry = [k |-> name, v |-> value] *)
(*   [t |-> "bool", b |-> TRUE/FALSE]    a boolean                         *)
(*   [t |-> "num",  n |-> integer]       a number                          *)
(*   [t |-> "null"]                      null                              *)
(*   [t |-> "undef"]                     undefined (a missing property)    *)
(*   [t |-> "fn"]                        a function inherited from         *)
(*                                       Object.prototype                  *)
(*   [t |-> "throw"]                     the call ended by `throw`         *)
(* Paths and breadcrumbs are sequences of strings.  A text whose           *)
(* characters the program looks at (--current-page, --url-prefix) is a     *)
(* sequence of one-character strings.                                      *)
(*                                                                         *)
(* Spec calls findNexts with every path up to MaxPathLen components;       *)
(* SpecLeaf calls it with the path of a page of the navigation, or [];     *)
(* SpecMalformed calls it on documents with a malformed entry; SpecCli     *)
(* runs the whole command line of next_page_resolver.js.                   *)
(*                                                                         *)
(* The other tools of the repository have a specification each: SpecList   *)
(* is list_pages.js, SpecInject is mustache_file.js on a template with one *)
(* placeholder, SpecSchema is loadAllSchemas of schema_validator.js,       *)
(* SpecMerge is substitutions_merge.js on documents kept in a heap of      *)
(* objects (Object.prototype is one of them).                              *)
(*                                                                         *)
(* Further specifications of next_page_resolver.js look at one case each:  *)
(* SpecGetNexts calls getNexts on the navigation and on its elements,      *)
(* SpecTracks resolves the last page of a track, SpecWalk follows the      *)
(* chain of next pages, SpecShared looks for a page that is there more     *)
(* than once, SpecNear passes paths that are nearly the path of a page,    *)
(* SpecRoundTrip passes the lines that list_pages.js prints.               *)
(***************************************************************************)
EXTENDS Integers, Sequences, FiniteSets, TLC

VARIABLES navigation, open, path, nexts, pc

\* the process of the tool that is run: its parsed options, what it printed and
\* how it ended; for next_page_resolver.js also the --current-page text and the
\* [id, url] pairs of line 28
VARIABLES options, currentPage, paths, stdout, stderr, exitCode

processVars == <<options, currentPage, paths, stdout, stderr, exitCode>>

\* mustache_file.js: the path of the placeholder of the template, and the
\* locals filePath, unfinished and i of the replace callback of preprocessTemplate
VARIABLES template, filePath, unfinished, iterations

injectVars == <<template, filePath, unfinished, iterations>>

\* schema_validator.js: the schema files on disk (for each its $ref values), the
\* locals of loadAllSchemas, and how often loadFile was called for each path
VARIABLES files, schemaQueue, processedPaths, loadedSchemas, loads

schemaVars == <<files, schemaQueue, processedPaths, loadedSchemas, loads>>

\* substitutions_merge.js: the objects of the process (Object.prototype, result
\* and those of the parsed files), the documents of the files of the command
\* line, and how many of them are merged
VARIABLES heap, inputs, merged

mergeVars == <<heap, inputs, merged>>

\* next_page_resolver.js called as a library: the arguments of a call of
\* getNexts, and the paths of the pages a reader has been on who follows the
\* next page from the start
VARIABLES subject, breadcrumb, visited

walkVars == <<subject, breadcrumb, visited>>

toolVars == <<injectVars, schemaVars, mergeVars, walkVars>>

vars == <<navigation, open, path, nexts, pc, processVars, toolVars>>

-----------------------------------------------------------------------------
(* Bounds of the model. *)

\* total number of leaves and tracks of a navigation tree
MaxNodes == 5

\* nesting depth of GroupSets in a navigation tree
MaxDepth == 2

\* longest path handed to findNexts: one component more than the nesting
MaxPathLen == MaxDepth + 1

\* page and track names: non-empty strings that are own keys only
NAMES == {"a", "b"}

\* property names every plain object inherits from Object.prototype
ProtoKeys == {"constructor"}

\* components a caller may put into a path
COMPONENTS == NAMES \cup ProtoKeys

-----------------------------------------------------------------------------
(* JavaScript values. *)

Str(n) == [t |-> "str", s |-> n]
Arr(q) == [t |-> "arr", a |-> q]
Obj(es) == [t |-> "obj", e |-> es]
Bool(v) == [t |-> "bool", b |-> v]
Num(n) == [t |-> "num", n |-> n]
Null == [t |-> "null"]
Undefined == [t |-> "undef"]
Fn == [t |-> "fn"]
Throw == [t |-> "throw"]

IsString(x) == x.t = "str"
IsArray(x) == x.t = "arr"
IsObject(x) == x.t \in {"obj", "arr"}
IsThrow(x) == x.t = "throw"

\* JavaScript truthiness, as used by `!xs` and `if (found)`
Truthy(x) ==
  CASE x.t = "bool" -> x.b
    [] x.t = "str" -> x.s # ""
    [] x.t = "num" -> x.n # 0
    [] x.t = "null" -> FALSE
    [] x.t = "undef" -> FALSE
    [] OTHER -> TRUE

\* xs[key] on a plain object: an own entry, else an inherited member, else undefined
Lookup(xs, key) ==
  IF \E i \in 1..Len(xs.e) : xs.e[i].k = key
    THEN xs.e[CHOOSE i \in 1..Len(xs.e) : xs.e[i].k = key].v
    ELSE IF key \in ProtoKeys THEN Fn ELSE Undefined

-----------------------------------------------------------------------------
(* getNexts, lines 90-100. *)

RECURSIVE getNexts(_, _)
RECURSIVE FlatMapEntries(_, _, _)

\* .filter(Array.isArray) over the flat-mapped items
RECURSIVE FilterIsArray(_)
FilterIsArray(items) ==
  IF items = <<>> THEN <<>>
  ELSE IF IsArray(Head(items))
    THEN <<Head(items)>> \o FilterIsArray(Tail(items))
    ELSE FilterIsArray(Tail(items))

\* mutant of FlatMapEntries: the results of later tracks are put first
FlatMapEntries_Reversed(es, directions, i) ==
  IF i > Len(es) THEN Arr(<<>>)
  ELSE LET r == getNexts(es[i].v, Append(directions, es[i].k))
       IN IF IsThrow(r) THEN Throw
          ELSE LET rest == FlatMapEntries(es, directions, i + 1)
               IN IF IsThrow(rest) THEN Throw
                  ELSE IF IsArray(r) THEN Arr(rest.a \o r.a)
                  ELSE Arr(rest.a \o <<r>>)

\* Object.entries(xs).flatMap(([k,v]) => getNexts(v, [...directions, k])) from entry i on:
\* an array result contributes its elements, any other result contributes itself
FlatMapEntries(es, directions, i) ==
  IF i > Len(es) THEN Arr(<<>>)
  ELSE LET r == getNexts(es[i].v, Append(directions, es[i].k))
       IN IF IsThrow(r) THEN Throw
          ELSE LET rest == FlatMapEntries(es, directions, i + 1)
               IN IF IsThrow(rest) THEN Throw
                  ELSE IF IsArray(r) THEN Arr(r.a \o rest.a)
                  ELSE Arr(<<r>> \o rest.a)

\* mutant of getNexts: the results of the tracks are not filtered, so the
\* marker of an empty track stays among the paths
getNexts_Unfiltered(xs, directions) ==
  IF IsString(xs) THEN Arr(<<Arr(Append(directions, xs.s))>>)
  ELSE IF IsArray(xs)
    THEN IF Len(xs.a) > 0 THEN getNexts(xs.a[1], directions) ELSE Bool(TRUE)
  ELSE IF xs.t = "obj"
    THEN LET mapped == FlatMapEntries(xs.e, directions, 1)
         IN IF IsThrow(mapped) THEN Throw
            ELSE IF Len(mapped.a) > 0 THEN mapped ELSE Bool(TRUE)
  ELSE Throw

getNexts(xs, directions) ==
  IF IsString(xs) THEN Arr(<<Arr(Append(directions, xs.s))>>)
  ELSE IF IsArray(xs)
    THEN IF Len(xs.a) > 0 THEN getNexts(xs.a[1], directions) ELSE Bool(TRUE)
  ELSE IF xs.t = "obj"
    THEN LET mapped == FlatMapEntries(xs.e, directions, 1)
         IN IF IsThrow(mapped) THEN Throw
            ELSE LET nxs == FilterIsArray(mapped.a)
                 IN IF Len(nxs) > 0 THEN Arr(nxs) ELSE Bool(TRUE)
  ELSE Throw

-----------------------------------------------------------------------------
(* findNextsHelper, lines 56-88, and findNexts, lines 47-54. *)

RECURSIVE findNextsHelper(_, _, _)
RECURSIVE ArrayScan(_, _, _, _, _)

\* mutant of ArrayScan: the first descendants of a following element lose the
\* breadcrumb of the sequence
ArrayScan_NoBreadcrumb(xs, p, directions, i, found) ==
  IF i > Len(xs.a) THEN found
  ELSE IF Truthy(found)
    THEN IF IsArray(found) THEN found
         ELSE LET f == getNexts(xs.a[i], <<>>)
              IN IF IsThrow(f) THEN Throw
                 ELSE ArrayScan(xs, p, directions, i + 1, f)
    ELSE LET f == findNextsHelper(xs.a[i], p, directions)
         IN IF IsThrow(f) THEN Throw
            ELSE ArrayScan(xs, p, directions, i + 1, f)

\* mutant of ArrayScan: the element after the match ends the loop, whatever its
\* first descendants are
ArrayScan_EmptyEndsSearch(xs, p, directions, i, found) ==
  IF i > Len(xs.a) THEN found
  ELSE IF Truthy(found)
    THEN IF IsArray(found) THEN found
         ELSE getNexts(xs.a[i], directions)
    ELSE LET f == findNextsHelper(xs.a[i], p, directions)
         IN IF IsThrow(f) THEN Throw
            ELSE ArrayScan(xs, p, directions, i + 1, f)

\* mutant of ArrayScan: the first GroupSet that has the named track ends the loop,
\* whether or not the leaf is in it
ArrayScan_FirstInstanceOnly(xs, p, directions, i, found) ==
  IF i > Len(xs.a) THEN found
  ELSE IF Truthy(found)
    THEN IF IsArray(found) THEN found
         ELSE LET f == getNexts(xs.a[i], directions)
              IN IF IsThrow(f) THEN Throw
                 ELSE ArrayScan(xs, p, directions, i + 1, f)
    ELSE LET f == findNextsHelper(xs.a[i], p, directions)
         IN IF IsThrow(f) THEN Throw
            ELSE IF Len(p) > 1 /\ xs.a[i].t = "obj" /\ IsArray(Lookup(xs.a[i], p[1]))
              THEN f
            ELSE ArrayScan(xs, p, directions, i + 1, f)

\* mutant of ArrayScan: an element after the match that matches the path as
\* well becomes the current page
ArrayScan_LaterMatch(xs, p, directions, i, found) ==
  IF i > Len(xs.a) THEN found
  ELSE IF Truthy(found)
    THEN IF IsArray(found) THEN found
         ELSE LET again == findNextsHelper(xs.a[i], p, directions)
                  f == getNexts(xs.a[i], directions)
              IN IF IsThrow(again) \/ IsThrow(f) THEN Throw
                 ELSE IF Truthy(again) THEN ArrayScan(xs, p, directions, i + 1, again)
                 ELSE ArrayScan(xs, p, directions, i + 1, f)
    ELSE LET f == findNextsHelper(xs.a[i], p, directions)
         IN IF IsThrow(f) THEN Throw
            ELSE ArrayScan(xs, p, directions, i + 1, f)

\* the `for (const x of xs)` loop of lines 64-74, from element i on with the
\* current value of `found`
ArrayScan(xs, p, directions, i, found) ==
  IF i > Len(xs.a) THEN found
  ELSE IF Truthy(found)
    THEN IF IsArray(found) THEN found
         ELSE LET f == getNexts(xs.a[i], directions)
              IN IF IsThrow(f) THEN Throw
                 ELSE ArrayScan(xs, p, directions, i + 1, f)
    ELSE LET f == findNextsHelper(xs.a[i], p, directions)
         IN IF IsThrow(f) THEN Throw
            ELSE ArrayScan(xs, p, directions, i + 1, f)

\* mutant of findNextsHelper: a track that is exhausted after the match reports
\* "not found" instead of "found", so the enclosing sequence does not go on
findNextsHelper_NoBacktrack(xs, p, directions) ==
  IF ~Truthy(xs) THEN Bool(FALSE)
  ELSE IF Len(p) = 0 THEN Bool(FALSE)
  ELSE IF IsArray(xs) THEN ArrayScan(xs, p, directions, 1, Bool(FALSE))
  ELSE IF Len(p) = 1
    THEN IF IsString(xs) THEN Bool(xs.s = p[1])
         ELSE IF IsObject(xs) THEN Bool(FALSE)
         ELSE Throw
  ELSE IF IsString(xs) THEN Bool(FALSE)
  ELSE IF IsObject(xs)
    THEN LET r == findNextsHelper(Lookup(xs, p[1]), Tail(p), Append(directions, p[1]))
         IN IF IsArray(r) \/ IsThrow(r) THEN r ELSE Bool(FALSE)
  ELSE Throw

\* mutant of findNextsHelper: a track that is exhausted after the match is
\* followed by the other tracks of its GroupSet
findNextsHelper_IntoSiblings(xs, p, directions) ==
  IF ~Truthy(xs) THEN Bool(FALSE)
  ELSE IF Len(p) = 0 THEN Bool(FALSE)
  ELSE IF IsArray(xs) THEN ArrayScan(xs, p, directions, 1, Bool(FALSE))
  ELSE IF Len(p) = 1
    THEN IF IsString(xs) THEN Bool(xs.s = p[1])
         ELSE IF IsObject(xs) THEN Bool(FALSE)
         ELSE Throw
  ELSE IF IsString(xs) THEN Bool(FALSE)
  ELSE IF IsObject(xs)
    THEN LET r == findNextsHelper(Lookup(xs, p[1]), Tail(p), Append(directions, p[1]))
         IN IF r = Bool(TRUE)
              THEN getNexts(Obj(SelectSeq(xs.e, LAMBDA entry : entry.k # p[1])), directions)
              ELSE r
  ELSE Throw

\* mutant of findNextsHelper: a leaf is compared with the last component of a
\* path that has track names left
findNextsHelper_AnyDepth(xs, p, directions) ==
  IF ~Truthy(xs) THEN Bool(FALSE)
  ELSE IF Len(p) = 0 THEN Bool(FALSE)
  ELSE IF IsArray(xs) THEN ArrayScan(xs, p, directions, 1, Bool(FALSE))
  ELSE IF Len(p) = 1
    THEN IF IsString(xs) THEN Bool(xs.s = p[1])
         ELSE IF IsObject(xs) THEN Bool(FALSE)
         ELSE Throw
  ELSE IF IsString(xs) THEN Bool(xs.s = p[Len(p)])
  ELSE IF IsObject(xs)
    THEN findNextsHelper(Lookup(xs, p[1]), Tail(p), Append(directions, p[1]))
  ELSE Throw

findNextsHelper(xs, p, directions) ==
  IF ~Truthy(xs) THEN Bool(FALSE)
  ELSE IF Len(p) = 0 THEN Bool(FALSE)
  ELSE IF IsArray(xs) THEN ArrayScan(xs, p, directions, 1, Bool(FALSE))
  ELSE IF Len(p) = 1
    THEN IF IsString(xs) THEN Bool(xs.s = p[1])
         ELSE IF IsObject(xs) THEN Bool(FALSE)
         ELSE Throw
  ELSE IF IsString(xs) THEN Bool(FALSE)
  ELSE IF IsObject(xs)
    THEN findNextsHelper(Lookup(xs, p[1]), Tail(p), Append(directions, p[1]))
  ELSE Throw

findNexts(xs, p) ==
  LET nxs == IF Len(p) = 0 THEN getNexts(xs, <<>>)
             ELSE findNextsHelper(xs, p, <<>>)
  IN IF IsThrow(nxs) THEN Throw
     ELSE IF IsArray(nxs) THEN nxs ELSE Arr(<<>>)

-----------------------------------------------------------------------------
(* Navigation trees: every sequence entry is a Leaf (a string) or a        *)
(* GroupSet (a mapping from one or more distinct track names to            *)
(* sequences).  The loader reads the document from top to bottom; `open`   *)
(* is the number of GroupSets it is inside of, so the sequence it is       *)
(* filling is the last track of the last element, `open` levels down.      *)
(* The size of a tree counts its leaves and its tracks.                    *)

RECURSIVE Size(_)
RECURSIVE SizeOfTracks(_, _)
SizeOfTracks(es, j) ==
  IF j > Len(es) THEN 0 ELSE 1 + Size(es[j].v) + SizeOfTracks(es, j + 1)

RECURSIVE SizeFrom(_, _)
SizeFrom(q, i) ==
  IF i > Len(q) THEN 0
  ELSE (IF q[i].t = "obj" THEN SizeOfTracks(q[i].e, 1) ELSE 1) + SizeFrom(q, i + 1)

Size(xs) == SizeFrom(xs.a, 1)

\* the tree with elem appended to the sequence d levels down
RECURSIVE AppendElem(_, _, _)
AppendElem(xs, d, elem) ==
  IF d = 0 THEN Arr(Append(xs.a, elem))
  ELSE Arr([xs.a EXCEPT ![Len(xs.a)] =
              Obj([@.e EXCEPT ![Len(@.e)] =
                     [k |-> @.k, v |-> AppendElem(@.v, d - 1, elem)]])])

\* the tree with an empty track nm added to the GroupSet that is open d levels down
RECURSIVE AppendTrack(_, _, _)
AppendTrack(xs, d, nm) ==
  IF d = 1
    THEN Arr([xs.a EXCEPT ![Len(xs.a)] =
                Obj(Append(@.e, [k |-> nm, v |-> Arr(<<>>)]))])
    ELSE Arr([xs.a EXCEPT ![Len(xs.a)] =
                Obj([@.e EXCEPT ![Len(@.e)] =
                       [k |-> @.k, v |-> AppendTrack(@.v, d - 1, nm)]])])

\* the track names of the GroupSet that is open d levels down
RECURSIVE OpenTrackNames(_, _)
OpenTrackNames(xs, d) ==
  LET g == xs.a[Len(xs.a)]
  IN IF d = 1 THEN { g.e[j].k : j \in 1..Len(g.e) }
     ELSE OpenTrackNames(g.e[Len(g.e)].v, d - 1)

RECURSIVE PathsOfLen(_)
PathsOfLen(n) ==
  IF n = 0 THEN {<<>>}
  ELSE { Append(q, c) : q \in PathsOfLen(n - 1), c \in COMPONENTS }

Paths == UNION { PathsOfLen(n) : n \in 0..MaxPathLen }

-----------------------------------------------------------------------------
(* The program: the navigation is loaded, then findNexts is called once.   *)

\* the tools that are not run
IdleInject ==
  /\ template = <<>>
  /\ filePath = <<>>
  /\ unfinished = FALSE
  /\ iterations = 0

IdleSchema ==
  /\ files = <<>>
  /\ schemaQueue = <<>>
  /\ processedPaths = {}
  /\ loadedSchemas = <<>>
  /\ loads = <<>>

IdleMerge ==
  /\ heap = <<>>
  /\ inputs = <<>>
  /\ merged = 0

IdleWalk ==
  /\ subject = Undefined
  /\ breadcrumb = <<>>
  /\ visited = <<>>

\* the defaults of the options, lines 14-16
idPrefixDefault == "next_page"
sharedDefault == "shared"
urlPrefixDefault == <<>>

Init ==
  /\ navigation = Arr(<<>>)
  /\ open = 0
  /\ path = <<>>
  /\ nexts = Undefined
  /\ pc = "loading"
  /\ options = [idPrefix |-> idPrefixDefault, shared |-> sharedDefault,
                urlPrefix |-> urlPrefixDefault]
  /\ currentPage = <<>>
  /\ paths = <<>>
  /\ stdout = <<>>
  /\ stderr = <<>>
  /\ exitCode = 0
  /\ IdleInject
  /\ IdleSchema
  /\ IdleMerge
  /\ IdleWalk

\* the loader reads a page name
LoadLeaf(nm) ==
  /\ pc = "loading"
  /\ Size(navigation) < MaxNodes
  /\ navigation' = AppendElem(navigation, open, Str(nm))
  /\ UNCHANGED <<open, path, nexts, pc, processVars, toolVars>>

\* the loader reads a mapping: a GroupSet with a first track
LoadGroupSet(nm) ==
  /\ pc = "loading"
  /\ Size(navigation) < MaxNodes
  /\ open < MaxDepth
  /\ navigation' = AppendElem(navigation, open, Obj(<<[k |-> nm, v |-> Arr(<<>>)]>>))
  /\ open' = open + 1
  /\ UNCHANGED <<path, nexts, pc, processVars, toolVars>>

\* the loader reads a further key of the mapping it is in: the next track
LoadTrack(nm) ==
  /\ pc = "loading"
  /\ Size(navigation) < MaxNodes
  /\ open > 0
  /\ nm \notin OpenTrackNames(navigation, open)
  /\ navigation' = AppendTrack(navigation, open, nm)
  /\ UNCHANGED <<open, path, nexts, pc, processVars, toolVars>>

\* the mapping the loader is in ends
EndGroupSet ==
  /\ pc = "loading"
  /\ open > 0
  /\ open' = open - 1
  /\ UNCHANGED <<navigation, path, nexts, pc, processVars, toolVars>>

\* line 26: const nexts = findNexts(navigation, currentPageParts)
Resolve(p) ==
  /\ pc = "loading"
  /\ open = 0
  /\ path' = p
  /\ nexts' = findNexts(navigation, p)
  /\ pc' = "resolved"
  /\ UNCHANGED <<navigation, open, processVars, toolVars>>

Load ==
  \/ \E nm \in NAMES : LoadLeaf(nm)
  \/ \E nm \in NAMES : LoadGroupSet(nm)
  \/ \E nm \in NAMES : LoadTrack(nm)
  \/ EndGroupSet

Next == Load \/ \E p \in Paths : Resolve(p)

Spec == Init /\ [][Next]_vars

-----------------------------------------------------------------------------
(* Positions in a navigation tree, used to state the claims.               *)
(* A position <<i>> is element i of the root sequence; <<i, j, k>> is      *)
(* element k of track j of the GroupSet that is element i; and so on.      *)

\* the sequence that holds the element at position pos
RECURSIVE SeqOf(_, _)
SeqOf(xs, pos) ==
  IF Len(pos) = 1 THEN xs
  ELSE SeqOf(xs.a[pos[1]].e[pos[2]].v, SubSeq(pos, 3, Len(pos)))

ElemAt(xs, pos) == SeqOf(xs, pos).a[pos[Len(pos)]]

\* the track names on the way to position pos
RECURSIVE Crumb(_, _)
Crumb(xs, pos) ==
  IF Len(pos) = 1 THEN <<>>
  ELSE <<xs.a[pos[1]].e[pos[2]].k>>
       \o Crumb(xs.a[pos[1]].e[pos[2]].v, SubSeq(pos, 3, Len(pos)))

RECURSIVE LeafPositions(_)
LeafPositions(xs) ==
  UNION { IF IsString(xs.a[i]) THEN {<<i>>}
          ELSE UNION { { <<i, j>> \o q : q \in LeafPositions(xs.a[i].e[j].v) } :
                       j \in 1..Len(xs.a[i].e) } :
          i \in 1..Len(xs.a) }

PathTo(xs, pos) == Append(Crumb(xs, pos), ElemAt(xs, pos).s)

IsLast(xs, pos) == pos[Len(pos)] = Len(SeqOf(xs, pos).a)

\* position of the element after pos in the same sequence
Succ(pos) == [pos EXCEPT ![Len(pos)] = @ + 1]

\* position of the GroupSet whose track holds pos (pos is nested)
Parent(pos) == SubSeq(pos, 1, Len(pos) - 2)

\* document order on positions
RECURSIVE Before(_, _)
Before(p, q) ==
  IF p = <<>> THEN q # <<>>
  ELSE IF q = <<>> THEN FALSE
  ELSE IF Head(p) # Head(q) THEN Head(p) < Head(q)
  ELSE Before(Tail(p), Tail(q))

LeafPaths(xs) == { PathTo(xs, pos) : pos \in LeafPositions(xs) }

\* the program run for a page of the navigation (or before the first page): the
\* path handed to findNexts is the path of a leaf, or empty
NextLeaf == Load \/ \E p \in LeafPaths(navigation) \cup {<<>>} : Resolve(p)

SpecLeaf == Init /\ [][NextLeaf]_vars

\* the first leaf in document order that the path p names
FirstPos(xs, p) ==
  LET S == { pos \in LeafPositions(xs) : PathTo(xs, pos) = p }
  IN CHOOSE pos \in S : \A q \in S \ {pos} : Before(pos, q)

\* the first-descendant set of a node: getNexts, the empty marker read as no paths
FirstDescendants(node, crumb) ==
  LET g == getNexts(node, crumb) IN IF IsArray(g) THEN g ELSE Arr(<<>>)

\* the elements that follow pos: first those after it in its own sequence, then
\* those after the enclosing GroupSet in its sequence, and so on outwards
RECURSIVE Following(_, _)
Following(xs, pos) ==
  LET sq == SeqOf(xs, pos)
      own == [i \in 1..(Len(sq.a) - pos[Len(pos)]) |->
                [node |-> sq.a[pos[Len(pos)] + i], crumb |-> Crumb(xs, pos)]]
  IN IF Len(pos) = 1 THEN own ELSE own \o Following(xs, Parent(pos))

\* the first-descendant set of the first following element that has one
RECURSIVE FirstNonEmpty(_)
FirstNonEmpty(cands) ==
  IF cands = <<>> THEN Arr(<<>>)
  ELSE LET g == getNexts(Head(cands).node, Head(cands).crumb)
       IN IF IsArray(g) THEN g ELSE FirstNonEmpty(Tail(cands))

\* the nearest enclosing level of pos (its own sequence first) at which an
\* element follows; <<>> if there is none
RECURSIVE NearestWithNext(_, _)
NearestWithNext(xs, pos) ==
  IF ~IsLast(xs, pos) THEN pos
  ELSE IF Len(pos) = 1 THEN <<>>
  ELSE NearestWithNext(xs, Parent(pos))

Resolved == pc = "resolved"

-----------------------------------------------------------------------------
(* C1 *)

-----------------------------------------------------------------------------
(* C2 *)

-----------------------------------------------------------------------------
(* C3 *)

HasLeaves(node) ==
  IF IsString(node) THEN TRUE
  ELSE IF IsArray(node) THEN LeafPositions(node) # {}
  ELSE \E j \in 1..Len(node.e) : LeafPositions(node.e[j].v) # {}

\* the leftmost leaves of a sequence: the leftmost element that has leaves is
\* either a leaf, or a GroupSet that fans out to the leftmost leaves of its tracks
RECURSIVE Leftmost(_, _)
RECURSIVE LeftmostOfTracks(_, _, _)
LeftmostOfTracks(es, crumb, j) ==
  IF j > Len(es) THEN <<>>
  ELSE Leftmost(es[j].v.a, Append(crumb, es[j].k)) \o LeftmostOfTracks(es, crumb, j + 1)

Leftmost(q, crumb) ==
  IF q = <<>> THEN <<>>
  ELSE IF ~HasLeaves(Head(q)) THEN Leftmost(Tail(q), crumb)
  ELSE IF IsString(Head(q)) THEN <<Arr(Append(crumb, Head(q).s))>>
  ELSE LeftmostOfTracks(Head(q).e, crumb, 1)

\* C3 as stated: findNexts(T, []) is the leftmost leaf of T, or the fan-out of the
\* leftmost leaves of all tracks if the leftmost element is a GroupSet, and it is
\* [] only if T has no leaves
C3_AsStated ==
  (Resolved /\ path = <<>>) =>
    /\ nexts = Arr(Leftmost(navigation.a, <<>>))
    /\ (nexts = Arr(<<>>) => LeafPositions(navigation) = {})

-----------------------------------------------------------------------------
(* C4 and C5 *)

\* a GroupSet whose tracks all have zero elements
IsEmptyGroupSet(node) ==
  /\ node.t = "obj"
  /\ \A j \in 1..Len(node.e) : node.e[j].v.a = <<>>

\* the tree without the element at position pos
RECURSIVE RemoveAt(_, _)
RemoveAt(xs, pos) ==
  IF Len(pos) = 1
    THEN Arr(SubSeq(xs.a, 1, pos[1] - 1) \o SubSeq(xs.a, pos[1] + 1, Len(xs.a)))
    ELSE Arr([xs.a EXCEPT ![pos[1]] =
                Obj([@.e EXCEPT ![pos[2]] =
                       [k |-> @.k,
                        v |-> RemoveAt(@.v, SubSeq(pos, 3, Len(pos)))]])])

\* the tree without the empty GroupSets that directly follow position pos
RECURSIVE DropEmptyAfter(_, _)
DropEmptyAfter(xs, pos) ==
  IF ~IsLast(xs, pos) /\ IsEmptyGroupSet(ElemAt(xs, Succ(pos)))
    THEN DropEmptyAfter(RemoveAt(xs, Succ(pos)), pos)
    ELSE xs

\* C4: when the elements that follow the located leaf are GroupSets whose tracks
\* all have zero elements, findNexts returns what it returns for the tree without
\* those GroupSets: they contribute nothing and do not end the search
C4_EmptySkipAfterLeaf ==
  (Resolved /\ path \in LeafPaths(navigation)) =>
    LET pos == FirstPos(navigation, path)
    IN (~IsLast(navigation, pos) /\ IsEmptyGroupSet(ElemAt(navigation, Succ(pos)))) =>
         nexts = findNexts(DropEmptyAfter(navigation, pos), path)

\* C4 witness: the located leaf is followed by an empty GroupSet and then by an
\* element whose first descendants are returned
C4_Witness ==
  /\ Resolved
  /\ path \in LeafPaths(navigation)
  /\ LET pos == FirstPos(navigation, path)
     IN /\ ~IsLast(navigation, pos)
        /\ IsEmptyGroupSet(ElemAt(navigation, Succ(pos)))
        /\ ~IsLast(navigation, Succ(pos))
        /\ nexts # Arr(<<>>)
        /\ nexts = FirstDescendants(ElemAt(navigation, Succ(Succ(pos))),
                                    Crumb(navigation, pos))

\* C5 as stated: when getNexts descends into a sequence whose first element is a
\* GroupSet with only empty tracks, the result is that of the same sequence without
\* that GroupSet; for the empty path the sequence is the tree itself, after a
\* located leaf it is a track of the GroupSet that follows the leaf
C5_AsStated ==
  /\ (Resolved /\ path = <<>> /\ navigation.a # <<>>
        /\ IsEmptyGroupSet(navigation.a[1])) =>
       nexts = findNexts(RemoveAt(navigation, <<1>>), path)
  /\ (Resolved /\ path \in LeafPaths(navigation)) =>
       LET pos == FirstPos(navigation, path)
       IN (~IsLast(navigation, pos) /\ ElemAt(navigation, Succ(pos)).t = "obj") =>
            \A j \in 1..Len(ElemAt(navigation, Succ(pos)).e) :
              LET track == ElemAt(navigation, Succ(pos)).e[j].v
              IN (track.a # <<>> /\ IsEmptyGroupSet(track.a[1])) =>
                   nexts = findNexts(RemoveAt(navigation, Succ(pos) \o <<j, 1>>), path)

-----------------------------------------------------------------------------
(* C6 *)

IsPrefix(pre, q) == Len(pre) <= Len(q) /\ SubSeq(q, 1, Len(pre)) = pre

\* C6 as stated: when the element following the current leaf is a GroupSet, the
\* result holds a ResolvedPath for each of its tracks that has pages, prefixed
\* with the enclosing breadcrumb followed by the track's name
C6_AsStated ==
  (Resolved /\ path \in LeafPaths(navigation)) =>
    LET pos == FirstPos(navigation, path)
    IN (~IsLast(navigation, pos) /\ ElemAt(navigation, Succ(pos)).t = "obj") =>
         \A j \in 1..Len(ElemAt(navigation, Succ(pos)).e) :
           LET entry == ElemAt(navigation, Succ(pos)).e[j]
           IN HasLeaves(entry.v) =>
                /\ IsArray(nexts)
                /\ \E i \in 1..Len(nexts.a) :
                     IsPrefix(Append(Crumb(navigation, pos), entry.k), nexts.a[i].a)

-----------------------------------------------------------------------------
(* C7 *)

\* on the way to pos, some sequence holds an earlier GroupSet with a track of the
\* same name as the one taken: an earlier instance that lacks the leaf, when pos is
\* the first leaf of its path
RECURSIVE HasEarlierInstance(_, _)
HasEarlierInstance(xs, pos) ==
  /\ Len(pos) > 1
  /\ \/ \E i \in 1..(pos[1] - 1) :
          /\ xs.a[i].t = "obj"
          /\ \E j \in 1..Len(xs.a[i].e) : xs.a[i].e[j].k = xs.a[pos[1]].e[pos[2]].k
     \/ HasEarlierInstance(xs.a[pos[1]].e[pos[2]].v, SubSeq(pos, 3, Len(pos)))

-----------------------------------------------------------------------------
(* C8 *)

\* C8 as stated: for every non-empty path that names no leaf of the tree,
\* findNexts returns [] and raises no error
C8_AsStated ==
  (Resolved /\ path # <<>> /\ path \notin LeafPaths(navigation)) =>
    nexts = Arr(<<>>)

-----------------------------------------------------------------------------
(* C10 *)

\* the node and breadcrumb whose first descendants findNexts returns
ResultSource(xs, p) ==
  IF p = <<>> THEN <<[node |-> xs, crumb |-> <<>>]>>
  ELSE IF p \in LeafPaths(xs)
    THEN SelectSeq(Following(xs, FirstPos(xs, p)),
                   LAMBDA c : IsArray(getNexts(c.node, c.crumb)))
  ELSE <<>>

\* the GroupSet reached from node by the track names: a sequence stands for its
\* first element
RECURSIVE GroupSetOn(_, _)
GroupSetOn(node, names) ==
  IF IsArray(node)
    THEN IF node.a = <<>> THEN Undefined ELSE GroupSetOn(node.a[1], names)
  ELSE IF node.t # "obj" THEN Undefined
  ELSE IF names = <<>> THEN node
  ELSE GroupSetOn(Lookup(node, Head(names)), Tail(names))

TrackIndex(g, name) == CHOOSE j \in 1..Len(g.e) : g.e[j].k = name

HasTrack(g, name) == \E j \in 1..Len(g.e) : g.e[j].k = name

-----------------------------------------------------------------------------
(* Malformed navigation documents: a sequence entry that is neither a      *)
(* string, a sequence nor a mapping (jsyaml.load yields null for an empty  *)
(* entry, a number or a boolean for an unquoted one).                      *)

\* at most this many malformed entries in a document
MaxMalformed == 1

\* the malformed entries: null, a falsy and a truthy number, the booleans
MALFORMED == {Null, Num(0), Num(1), Bool(FALSE), Bool(TRUE)}

IsMalformed(x) == x.t \in {"null", "num", "bool"}

RECURSIVE CountMalformed(_)
CountMalformed(xs) ==
  IF IsArray(xs)
    THEN LET n[i \in 0..Len(xs.a)] ==
               IF i = 0 THEN 0 ELSE n[i - 1] + CountMalformed(xs.a[i])
         IN n[Len(xs.a)]
  ELSE IF xs.t = "obj"
    THEN LET n[i \in 0..Len(xs.e)] ==
               IF i = 0 THEN 0 ELSE n[i - 1] + CountMalformed(xs.e[i].v)
         IN n[Len(xs.e)]
  ELSE IF IsMalformed(xs) THEN 1 ELSE 0

\* the loader reads an entry that is not a string, a sequence or a mapping
LoadScalar(v) ==
  /\ pc = "loading"
  /\ Size(navigation) < MaxNodes
  /\ CountMalformed(navigation) < MaxMalformed
  /\ navigation' = AppendElem(navigation, open, v)
  /\ UNCHANGED <<open, path, nexts, pc, processVars, toolVars>>

\* the paths of ordinary names that are no longer than the nesting
NamePaths == { q \in Paths : Len(q) <= MaxDepth /\ \A i \in 1..Len(q) : q[i] \in NAMES }

NextMalformed ==
  \/ Load
  \/ \E v \in MALFORMED : LoadScalar(v)
  \/ \E p \in NamePaths : Resolve(p)

\* the program run on documents that may hold a malformed entry
SpecMalformed == Init /\ [][NextMalformed]_vars

-----------------------------------------------------------------------------
(* C11. A traversal that meets a node which is neither a string, a         *)
(* sequence nor a mapping raises an error.  The first entry of the root    *)
(* sequence is met by every call: by getNexts when the path is empty, by   *)
(* the first iteration of the loop of findNextsHelper otherwise.  So when  *)
(* the first entry is malformed, findNexts throws; read with the most      *)
(* room, it at least returns no candidate.                                 *)

C11_AsStated ==
  (Resolved /\ Len(navigation.a) > 0 /\ IsMalformed(navigation.a[1]))
    => (IsThrow(nexts) \/ nexts = Arr(<<>>))

-----------------------------------------------------------------------------
(* The calls a traversal makes.  Every operator below follows the control  *)
(* flow of the function it is named after and returns, instead of the      *)
(* function's result, the cost of the call: the number of calls of         *)
(* findNextsHelper and getNexts it makes in total (itself included) and    *)
(* the deepest nesting of calls it reaches.                                *)

NoCall == [calls |-> 0, depth |-> 0]

\* one call whose body makes the calls counted in inner
Call(inner) == [calls |-> 1 + inner.calls, depth |-> 1 + inner.depth]

\* the calls of c1 followed, in the same body, by the calls of c2
Then(c1, c2) ==
  [calls |-> c1.calls + c2.calls,
   depth |-> IF c1.depth >= c2.depth THEN c1.depth ELSE c2.depth]

RECURSIVE getNextsCost(_)

\* the flatMap of line 96 from entry i on: one call of getNexts per track, up
\* to a call that throws
RECURSIVE FlatMapCost(_, _)
FlatMapCost(es, i) ==
  IF i > Len(es) THEN NoCall
  ELSE Then(getNextsCost(es[i].v),
            IF IsThrow(getNexts(es[i].v, <<>>)) THEN NoCall
            ELSE FlatMapCost(es, i + 1))

getNextsCost(xs) ==
  IF IsString(xs) THEN Call(NoCall)
  ELSE IF IsArray(xs)
    THEN IF Len(xs.a) > 0 THEN Call(getNextsCost(xs.a[1])) ELSE Call(NoCall)
  ELSE IF xs.t = "obj" THEN Call(FlatMapCost(xs.e, 1))
  ELSE Call(NoCall)

RECURSIVE findNextsHelperCost(_, _, _)

RECURSIVE ArrayScanCost(_, _, _, _, _)

\* mutant of ArrayScanCost: once the page is found the loop hands the whole
\* sequence, not the element it is at, to getNexts
ArrayScanCost_Rescan(xs, p, directions, i, found) ==
  IF i > Len(xs.a) THEN NoCall
  ELSE IF Truthy(found)
    THEN IF IsArray(found) THEN NoCall
         ELSE LET f == getNexts(xs.a[i], directions)
              IN Then(getNextsCost(xs),
                      IF IsThrow(f) THEN NoCall
                      ELSE ArrayScanCost(xs, p, directions, i + 1, f))
    ELSE LET f == findNextsHelper(xs.a[i], p, directions)
         IN Then(findNextsHelperCost(xs.a[i], p, directions),
                 IF IsThrow(f) THEN NoCall
                 ELSE ArrayScanCost(xs, p, directions, i + 1, f))

\* the loop of lines 64-74 from element i on: one call per element, of getNexts
\* once the page is found and of findNextsHelper before, up to the `return found`
\* of line 66 or a call that throws
ArrayScanCost(xs, p, directions, i, found) ==
  IF i > Len(xs.a) THEN NoCall
  ELSE IF Truthy(found)
    THEN IF IsArray(found) THEN NoCall
         ELSE LET f == getNexts(xs.a[i], directions)
              IN Then(getNextsCost(xs.a[i]),
                      IF IsThrow(f) THEN NoCall
                      ELSE ArrayScanCost(xs, p, directions, i + 1, f))
    ELSE LET f == findNextsHelper(xs.a[i], p, directions)
         IN Then(findNextsHelperCost(xs.a[i], p, directions),
                 IF IsThrow(f) THEN NoCall
                 ELSE ArrayScanCost(xs, p, directions, i + 1, f))

findNextsHelperCost(xs, p, directions) ==
  IF ~Truthy(xs) THEN Call(NoCall)
  ELSE IF Len(p) = 0 THEN Call(NoCall)
  ELSE IF IsArray(xs) THEN Call(ArrayScanCost(xs, p, directions, 1, Bool(FALSE)))
  ELSE IF Len(p) = 1 THEN Call(NoCall)
  ELSE IF IsString(xs) THEN Call(NoCall)
  ELSE IF IsObject(xs)
    THEN Call(findNextsHelperCost(Lookup(xs, p[1]), Tail(p), Append(directions, p[1])))
  ELSE Call(NoCall)

findNextsCost(xs, p) ==
  Call(IF Len(p) = 0 THEN getNextsCost(xs) ELSE findNextsHelperCost(xs, p, <<>>))

\* the number of nodes of a tree: its sequences, mappings and scalar entries
RECURSIVE NodeCount(_)
NodeCount(xs) ==
  IF IsArray(xs)
    THEN LET n[i \in 0..Len(xs.a)] ==
               IF i = 0 THEN 1 ELSE n[i - 1] + NodeCount(xs.a[i])
         IN n[Len(xs.a)]
  ELSE IF xs.t = "obj"
    THEN LET n[i \in 0..Len(xs.e)] ==
               IF i = 0 THEN 1 ELSE n[i - 1] + NodeCount(xs.e[i].v)
         IN n[Len(xs.e)]
  ELSE 1

\* the nesting of a tree: how many GroupSets enclose its innermost sequence
RECURSIVE Nesting(_)
Nesting(xs) ==
  IF IsArray(xs)
    THEN LET n[i \in 0..Len(xs.a)] ==
               IF i = 0 THEN 0
               ELSE IF Nesting(xs.a[i]) > n[i - 1] THEN Nesting(xs.a[i]) ELSE n[i - 1]
         IN n[Len(xs.a)]
  ELSE IF xs.t = "obj"
    THEN LET n[i \in 0..Len(xs.e)] ==
               IF i = 0 THEN 0
               ELSE IF Nesting(xs.e[i].v) > n[i - 1] THEN Nesting(xs.e[i].v) ELSE n[i - 1]
         IN 1 + n[Len(xs.e)]
  ELSE 0

-----------------------------------------------------------------------------
(* C12. Every call findNexts(tree, path) on a finite tree ends: it makes   *)
(* at most one call of findNextsHelper or getNexts per node of the tree    *)
(* (each sequence is scanned at most once), and the calls are nested no    *)
(* deeper than the tree is: one frame for findNexts, one for the root      *)
(* sequence, two for each level of GroupSets (the mapping and the track)   *)
(* and one for the entry reached.                                          *)

C12_BoundedTraversal ==
  Resolved =>
    LET c == findNextsCost(navigation, path)
    IN /\ c.calls <= 1 + NodeCount(navigation)
       /\ c.depth <= 3 + 2 * Nesting(navigation)

\* a call that goes down through two levels of GroupSets, as deep as the bound allows
C12_Witness ==
  /\ Resolved
  /\ Nesting(navigation) = 2
  /\ findNextsCost(navigation, path).depth = 7

-----------------------------------------------------------------------------
(* The command line of next_page_resolver.js, lines 21-45 (POSIX paths).   *)

\* path.sep
sep == "/"

\* String.prototype.split(separator) on a text: the pieces between the
\* separators, empty pieces included, never less than one piece
RECURSIVE SplitFrom(_, _, _, _, _)
SplitFrom(text, separator, i, piece, pieces) ==
  IF i > Len(text) THEN Append(pieces, piece)
  ELSE IF text[i] = separator
    THEN SplitFrom(text, separator, i + 1, "", Append(pieces, piece))
    ELSE SplitFrom(text, separator, i + 1, piece \o text[i], pieces)

Split(text, separator) == SplitFrom(text, separator, 1, "", <<>>)

\* Array.prototype.join(separator)
RECURSIVE Join(_, _)
Join(parts, separator) ==
  IF parts = <<>> THEN ""
  ELSE IF Len(parts) = 1 THEN parts[1]
  ELSE parts[1] \o separator \o Join(Tail(parts), separator)

\* the segments path.join keeps of an argument: the empty ones and "." go
RECURSIVE Segments(_)
Segments(parts) ==
  IF parts = <<>> THEN <<>>
  ELSE IF Head(parts) \in {"", "."} THEN Segments(Tail(parts))
  ELSE <<Head(parts)>> \o Segments(Tail(parts))

\* path.join(prefix, ...names) for a prefix without ".." and names that are
\* plain file names, the last argument among them: the arguments are joined
\* with "/" and normalised, which keeps a leading "/" and the segments
PathJoin(prefix, names) ==
  (IF prefix # <<>> /\ prefix[1] = sep THEN sep ELSE "")
    \o Join(Segments(Split(prefix, sep)) \o names, sep)

\* mutant of StripShared: every leading component that equals --shared goes
RECURSIVE StripShared_EveryLeading(_, _)
StripShared_EveryLeading(parts, shared) ==
  IF parts # <<>> /\ parts[1] = shared
    THEN StripShared_EveryLeading(Tail(parts), shared)
    ELSE parts

\* lines 24-25: if (currentPageParts[0] === options.shared) currentPageParts.shift()
StripShared(parts, shared) ==
  IF parts[1] = shared THEN Tail(parts) ELSE parts

\* mutant of HasNexts: the program goes on to print whatever findNexts returned
HasNexts_Always(nxs) == TRUE

\* line 27: nexts.length > 0
HasNexts(nxs) == Len(nxs.a) > 0

\* mutant of FormatPath: an empty breadcrumb stays empty
FormatPath_NoSubstitution(components, opts) ==
  LET file == components[Len(components)]
      popped == SubSeq(components, 1, Len(components) - 1)
  IN [id |-> opts.idPrefix \o "-" \o Join(popped, "_"),
      fp |-> PathJoin(opts.urlPrefix, Append(popped, file))]

\* lines 28-35: the [id, fp] pair of one result
FormatPath(components, opts) ==
  LET file == components[Len(components)]
      popped == SubSeq(components, 1, Len(components) - 1)
      crumb == IF Len(popped) = 0 THEN <<opts.shared>> ELSE popped
  IN [id |-> opts.idPrefix \o "-" \o Join(crumb, "_"),
      fp |-> PathJoin(opts.urlPrefix, Append(crumb, file))]

\* mutant of FormatPaths: a single result keeps its breadcrumb suffix
FormatPaths_AlwaysSuffix(nxs, opts) ==
  [i \in 1..Len(nxs.a) |-> FormatPath(nxs.a[i].a, opts)]

\* lines 28-37: the pairs of all results; a single one gets the bare prefix
FormatPaths(nxs, opts) ==
  LET mapped == [i \in 1..Len(nxs.a) |-> FormatPath(nxs.a[i].a, opts)]
  IN IF Len(mapped) = 1
       THEN <<[id |-> opts.idPrefix, fp |-> mapped[1].fp]>>
       ELSE mapped

\* Object.fromEntries: a later pair with a key that is already there replaces
\* the value of that key
RECURSIVE FromEntries(_, _)
FromEntries(pairs, es) ==
  IF pairs = <<>> THEN Obj(es)
  ELSE LET k == Head(pairs).id
           v == Head(pairs).fp
       IN IF \E j \in 1..Len(es) : es[j].k = k
            THEN FromEntries(Tail(pairs),
                   [j \in 1..Len(es) |-> IF es[j].k = k THEN [k |-> k, v |-> v] ELSE es[j]])
            ELSE FromEntries(Tail(pairs), Append(es, [k |-> k, v |-> v]))

\* the messages of lines 41 and 99, as line 43 prints them
NotFoundMessage == "Error processing navigation: Could not find next page for"
InvalidTypeMessage == "Error processing navigation: Invalid type"

\* the run of the program on a loaded navigation, lines 23-44
Main(page) ==
  /\ pc = "loading"
  /\ open = 0
  /\ currentPage' = page
  /\ path' = StripShared(Split(page, sep), options.shared)
  /\ nexts' = findNexts(navigation, path')
  /\ IF IsThrow(nexts')
       THEN /\ paths' = <<>>
            /\ stdout' = stdout
            /\ stderr' = Append(stderr, InvalidTypeMessage)
            /\ exitCode' = 1
       ELSE IF HasNexts(nexts')
         THEN /\ paths' = FormatPaths(nexts', options)
              /\ stdout' = Append(stdout, FromEntries(paths', <<>>))
              /\ stderr' = stderr
              /\ exitCode' = 0
         ELSE /\ paths' = <<>>
              /\ stdout' = stdout
              /\ stderr' = Append(stderr, NotFoundMessage)
              /\ exitCode' = 1
  /\ pc' = "exited"
  /\ UNCHANGED <<navigation, open, options, toolVars>>

\* the names of the navigation documents the command line is run on: pages
\* named a, tracks named a or a_a
CLI_PAGES == {"a"}
CLI_TRACKS == {"a", "a_a"}

\* the values of --url-prefix: the default, and a directory given with slashes
URL_PREFIXES == {urlPrefixDefault, <<"/", "p", "/">>}

\* the characters of the names that are put into --current-page
Chars(name) ==
  CASE name = "a" -> <<"a">>
    [] name = "b" -> <<"b">>
    [] name = "a_a" -> <<"a", "_", "a">>
    [] name = "shared" -> <<"s", "h", "a", "r", "e", "d">>

\* the text of a page: its components with path.sep between them
RECURSIVE PageText(_)
PageText(p) ==
  IF Len(p) = 1 THEN Chars(p[1])
  ELSE Chars(p[1]) \o <<sep>> \o PageText(Tail(p))

\* the values of --current-page: every page of the navigation as it is and
\* under the shared directory, the shared directory itself, the shared
\* directory twice and a page that is not in the navigation
CurrentPages(xs) ==
  { PageText(p) : p \in LeafPaths(xs) }
    \cup { PageText(<<sharedDefault>> \o p) : p \in LeafPaths(xs) }
    \cup { PageText(<<sharedDefault>>), PageText(<<sharedDefault, sharedDefault, "a">>),
           PageText(<<"b">>) }

InitCli ==
  /\ navigation = Arr(<<>>)
  /\ open = 0
  /\ path = <<>>
  /\ nexts = Undefined
  /\ pc = "loading"
  /\ options \in [idPrefix : {idPrefixDefault}, shared : {sharedDefault},
                  urlPrefix : URL_PREFIXES]
  /\ currentPage = <<>>
  /\ paths = <<>>
  /\ stdout = <<>>
  /\ stderr = <<>>
  /\ exitCode = 0
  /\ IdleInject
  /\ IdleSchema
  /\ IdleMerge
  /\ IdleWalk

LoadCli ==
  \/ \E nm \in CLI_PAGES : LoadLeaf(nm)
  \/ \E nm \in CLI_TRACKS : LoadGroupSet(nm)
  \/ \E nm \in CLI_TRACKS : LoadTrack(nm)
  \/ EndGroupSet

NextCli == LoadCli \/ \E page \in CurrentPages(navigation) : Main(page)

\* the program run from the command line
SpecCli == InitCli /\ [][NextCli]_vars

Exited == pc = "exited"

-----------------------------------------------------------------------------
(* C13. When findNexts returns no path, the program prints nothing on      *)
(* standard output, reports an error and exits with status 1; when it      *)
(* returns one or more paths, the program prints exactly one JSON object   *)
(* and reports no error.                                                   *)

C13_ExitStatus ==
  (Exited /\ ~IsThrow(nexts)) =>
    IF nexts.a = <<>>
      THEN stdout = <<>> /\ stderr # <<>> /\ exitCode = 1
      ELSE Len(stdout) = 1 /\ stdout[1].t = "obj" /\ stderr = <<>> /\ exitCode = 0

\* the program was run for the last page of a navigation and failed
C13_Witness ==
  /\ Exited
  /\ path \in LeafPaths(navigation)
  /\ nexts = Arr(<<>>)
  /\ stdout = <<>>
  /\ exitCode = 1

-----------------------------------------------------------------------------
(* C14. A single result gets the bare id prefix as its identifier; of      *)
(* several results each gets the prefix joined with its breadcrumb.        *)

\* the breadcrumb of a result: its components without the file name
Breadcrumb(result) == SubSeq(result.a, 1, Len(result.a) - 1)

\* as stated: the prefix and the breadcrumb components, all joined by "_"
C14_AsStated ==
  (Exited /\ exitCode = 0) =>
    /\ Len(nexts.a) = 1 => paths[1].id = options.idPrefix
    /\ Len(nexts.a) > 1 =>
         \A i \in 1..Len(nexts.a) :
           paths[i].id = Join(<<options.idPrefix>> \o Breadcrumb(nexts.a[i]), "_")

\* what holds: the prefix, a "-", then the breadcrumb components joined by "_"
C14_Identifiers ==
  (Exited /\ exitCode = 0) =>
    /\ Len(paths) = Len(nexts.a)
    /\ Len(nexts.a) = 1 => paths[1].id = options.idPrefix
    /\ Len(nexts.a) > 1 =>
         \A i \in 1..Len(nexts.a) :
           paths[i].id = options.idPrefix \o "-" \o Join(Breadcrumb(nexts.a[i]), "_")

\* two results, one of them two tracks down
C14_Witness ==
  /\ Exited
  /\ Len(nexts.a) = 2
  /\ \E i \in 1..2 : Len(Breadcrumb(nexts.a[i])) = 2
  /\ \E i \in 1..2 : paths[i].id = "next_page-a_a_a"

-----------------------------------------------------------------------------
(* C15. When findNexts returns more than one path, the identifiers are     *)
(* pairwise distinct, so the printed object has as many entries as there   *)
(* are paths.                                                              *)

C15_AsStated ==
  (Exited /\ exitCode = 0 /\ Len(nexts.a) > 1) =>
    /\ \A i, j \in 1..Len(paths) : i # j => paths[i].id # paths[j].id
    /\ Len(stdout[1].e) = Len(nexts.a)

-----------------------------------------------------------------------------
(* C16. The URL of a result is the URL prefix, the breadcrumb and the file *)
(* name joined; the file name is the last component of the result, the     *)
(* breadcrumb is what is left of it, or the shared name if nothing is      *)
(* left.                                                                   *)

\* the URL prefixes as a URL starts with them
UrlRoot(prefix) == IF prefix = urlPrefixDefault THEN "" ELSE "/p/"

C16_Urls ==
  (Exited /\ exitCode = 0) =>
    \A i \in 1..Len(nexts.a) :
      LET file == nexts.a[i].a[Len(nexts.a[i].a)]
          crumb == IF Breadcrumb(nexts.a[i]) = <<>> THEN <<options.shared>>
                   ELSE Breadcrumb(nexts.a[i])
      IN paths[i].fp = UrlRoot(options.urlPrefix) \o Join(crumb, "/") \o "/" \o file

\* the next page is a page of the root sequence, addressed under the prefix
C16_Witness ==
  /\ Exited
  /\ nexts = Arr(<<Arr(<<"a">>)>>)
  /\ paths[1].fp = "/p/shared/a"

-----------------------------------------------------------------------------
(* C17. The path handed to findNexts is the components of --current-page   *)
(* in order, without the first one if and only if that one is the shared   *)
(* name; no second component is removed.                                   *)

C17_StripShared ==
  Exited =>
    LET parts == Split(currentPage, sep)
    IN /\ PageText(parts) = currentPage
       /\ parts[1] = options.shared => path = Tail(parts)
       /\ parts[1] # options.shared => path = parts

\* the shared name twice: the second one stays
C17_Witness ==
  /\ Exited
  /\ currentPage = PageText(<<"shared", "shared", "a">>)
  /\ path = <<"shared", "a">>

-----------------------------------------------------------------------------
(* mustache_file.js (src/unnamed/part_001, and its earlier version         *)
(* src/unnamed/part_002, which has no iteration limit): preprocessTemplate *)
(* on a template that is one {{{file:...}}} placeholder, then the rest of  *)
(* main.  The path of a placeholder is a sequence of tokens: a piece of    *)
(* text, or the reference $name of a path variable.                        *)

Lit(text) == [var |-> FALSE, s |-> text]
Var(name) == [var |-> TRUE, s |-> name]

\* the limit of line 161 of part_001
iterationLimit == 100

\* the loop of lines 160-173 is followed for this many iterations
MaxLoop == 103

\* the path variables of the command line: d is a directory, c refers to itself
PATH_VARIABLES ==
  ("d" :> <<Lit("dir")>>) @@ ("c" :> <<Var("c"), Lit("/x")>>)

\* the files that can be read
READABLE == {"dir/page.html"}

\* the placeholders: a readable file, a missing file, an undefined path
\* variable, a path variable that refers to itself
ReadablePlaceholder == <<Var("d"), Lit("/page.html")>>
MissingPlaceholder == <<Lit("missing.html")>>
UndefinedPlaceholder == <<Var("u"), Lit("/page.html")>>
CyclicPlaceholder == <<Var("c")>>

PLACEHOLDERS ==
  {ReadablePlaceholder, MissingPlaceholder, UndefinedPlaceholder, CyclicPlaceholder}

\* `match`, the text of the whole placeholder as the template has it
Match(tokens) == <<Lit("{{{file:")>> \o tokens \o <<Lit("}}}")>>

HasVariable(tokens) == \E k \in 1..Len(tokens) : tokens[k].var

\* the two halves of a sequence of two or more tokens
FirstHalf(tokens) == SubSeq(tokens, 1, Len(tokens) \div 2)
SecondHalf(tokens) == SubSeq(tokens, Len(tokens) \div 2 + 1, Len(tokens))

\* the references to path variables that are not defined, in order
RECURSIVE UndefinedRefs(_, _)
UndefinedRefs(tokens, pathVariables) ==
  IF tokens = <<>> THEN <<>>
  ELSE IF Len(tokens) = 1
    THEN IF tokens[1].var /\ tokens[1].s \notin DOMAIN pathVariables
           THEN <<tokens[1].s>> ELSE <<>>
  ELSE UndefinedRefs(FirstHalf(tokens), pathVariables)
         \o UndefinedRefs(SecondHalf(tokens), pathVariables)

\* lines 164-172: every reference is replaced, by the value of the variable or,
\* if the variable is not defined, by `match`
RECURSIVE ReplaceVariables(_, _, _)
ReplaceVariables(tokens, pathVariables, match) ==
  IF tokens = <<>> THEN <<>>
  ELSE IF Len(tokens) = 1
    THEN IF ~tokens[1].var THEN tokens
         ELSE IF tokens[1].s \in DOMAIN pathVariables
           THEN pathVariables[tokens[1].s]
         ELSE match
  ELSE ReplaceVariables(FirstHalf(tokens), pathVariables, match)
         \o ReplaceVariables(SecondHalf(tokens), pathVariables, match)

\* the text of a path without references
RECURSIVE TextOf(_)
TextOf(tokens) ==
  IF tokens = <<>> THEN ""
  ELSE IF Len(tokens) = 1 THEN tokens[1].s
  ELSE TextOf(FirstHalf(tokens)) \o TextOf(SecondHalf(tokens))

ExceededMessage == "Exceeded maximum path resolution iterations"
NotDefinedMessage == "Error: Path variable is not defined"
ReadErrorMessage == "Error reading file"
DoubleBraceWarning == "Warning: Found unsupported double brace file syntax"

InitInject ==
  /\ navigation = Arr(<<>>)
  /\ open = 0
  /\ path = <<>>
  /\ nexts = Undefined
  /\ pc = "start"
  /\ options \in [production : BOOLEAN, script : {"part_001", "part_002"},
                  pathVariables : {PATH_VARIABLES}]
  /\ currentPage = <<>>
  /\ paths = <<>>
  /\ stdout = <<>>
  /\ stderr = <<>>
  /\ exitCode = 0
  /\ template \in PLACEHOLDERS
  /\ filePath = <<>>
  /\ unfinished = FALSE
  /\ iterations = 0
  /\ IdleSchema
  /\ IdleMerge
  /\ IdleWalk

\* lines 156-159: the replace callback is entered for the placeholder
StartReplace ==
  /\ pc = "start"
  /\ filePath' = template
  /\ unfinished' = TRUE
  /\ iterations' = 0
  /\ pc' = "resolving"
  /\ UNCHANGED <<navigation, open, path, nexts, processVars, template, schemaVars,
                 mergeVars, walkVars>>

\* lines 150-154 and 231: error() ends the process unless --development was given
ErrorExits(opts) == opts.production

\* lines 160-173: one iteration of the while loop.  error() ends the process
\* where it is called if exitOnError is set, and returns otherwise
ResolveVariables ==
  /\ pc = "resolving"
  /\ unfinished
  /\ iterations < MaxLoop
  /\ LET exceeded == options.script = "part_001" /\ iterations >= iterationLimit
         undefinedRefs == UndefinedRefs(filePath, options.pathVariables)
         messages == (IF exceeded THEN <<ExceededMessage>> ELSE <<>>)
                       \o [k \in 1..Len(undefinedRefs) |-> NotDefinedMessage]
     IN /\ iterations' = iterations + 1
        /\ IF messages # <<>> /\ ErrorExits(options)
             THEN /\ stderr' = Append(stderr, messages[1])
                  /\ exitCode' = 1
                  /\ pc' = "exited"
                  /\ UNCHANGED <<filePath, unfinished>>
             ELSE /\ stderr' = stderr \o messages
                  /\ filePath' = ReplaceVariables(filePath, options.pathVariables,
                                                  Match(template))
                  /\ unfinished' = HasVariable(filePath)
                  /\ UNCHANGED <<exitCode, pc>>
  /\ UNCHANGED <<navigation, open, path, nexts, options, currentPage, paths, stdout,
                 template, schemaVars, mergeVars, walkVars>>

\* lines 174-191 and 244-245: the file is read and its content is the output;
\* if it cannot be read, error() is called and the placeholder stays, which
\* checkForDoubleFileBraces then finds in the output
InjectFile ==
  /\ pc = "resolving"
  /\ ~unfinished
  /\ IF TextOf(filePath) \in READABLE
       THEN /\ stdout' = Append(stdout, "content of " \o TextOf(filePath))
            /\ UNCHANGED <<stderr, exitCode>>
       ELSE IF ErrorExits(options)
         THEN /\ stderr' = Append(stderr, ReadErrorMessage)
              /\ exitCode' = 1
              /\ UNCHANGED stdout
         ELSE /\ stderr' = stderr \o <<ReadErrorMessage, DoubleBraceWarning>>
              /\ stdout' = Append(stdout, TextOf(Match(template)))
              /\ UNCHANGED exitCode
  /\ pc' = "exited"
  /\ UNCHANGED <<navigation, open, path, nexts, options, currentPage, paths,
                 injectVars, schemaVars, mergeVars, walkVars>>

NextInject == StartReplace \/ ResolveVariables \/ InjectFile

\* mustache_file.js run on a template with one placeholder
SpecInject == InitInject /\ [][NextInject]_vars

-----------------------------------------------------------------------------
(* C18. A placeholder whose path refers to an undefined path variable, or  *)
(* whose file cannot be read, ends the process with an error message and   *)
(* status 1, in production and in development mode, and is not tried       *)
(* again: once the error is reported the process has exited, with that one *)
(* message.                                                                *)

C18_AsStated ==
  (template \in {MissingPlaceholder, UndefinedPlaceholder} /\ stderr # <<>>)
    => (pc = "exited" /\ exitCode = 1 /\ Len(stderr) = 1)

-----------------------------------------------------------------------------
(* schema_validator.js: loadAllSchemas, lines 125-166, on schema files of  *)
(* one directory.  A $ref value is a record of its three parts: "./" or    *)
(* nothing, a file name or nothing, "#" with a JSON pointer or nothing.    *)

\* at most this many different $ref values in one schema file
MaxRefs == 2

Ref(prefix, file, fragment) == [prefix |-> prefix, file |-> file, fragment |-> fragment]

\* the $ref values of the schema files, in the order findSchemaReferences meets
\* them: the three files, one of them also with "./" and a fragment, a
\* reference into the same document, and a file that does not exist
REFS ==
  << Ref("", "A.json", ""), Ref("", "B.json", ""), Ref("./", "B.json", "#/d"),
     Ref("", "C.json", ""), Ref("", "", "#/d"), Ref("", "M.json", "") >>

\* the schema files on disk, by absolute path; their directory /s is the
\* working directory
SCHEMA_FILES == {"/s/A.json", "/s/B.json", "/s/C.json"}

\* the path of the main schema as the command line gives it
mainSchemaPath == "A.json"

\* path.resolve of a path of that directory, relative ("A.json", "./A.json") or absolute
PathResolve(p) ==
  CASE p \in {"A.json", "./A.json", "/s/A.json"} -> "/s/A.json"
    [] p \in {"B.json", "./B.json", "/s/B.json"} -> "/s/B.json"
    [] p \in {"C.json", "./C.json", "/s/C.json"} -> "/s/C.json"
    [] p \in {"M.json", "./M.json", "/s/M.json"} -> "/s/M.json"

\* resolveSchemaPath, lines 34-57: null for a reference into the same document,
\* a throw for a file that does not exist, else the absolute path of the file
resolveSchemaPath(ref) ==
  IF ref.prefix = "" /\ ref.file = "" THEN Null
  ELSE LET resolvedPath == PathResolve(ref.prefix \o ref.file)
       IN IF resolvedPath \notin SCHEMA_FILES THEN Throw ELSE Str(resolvedPath)

\* the $ref values of a set, in the order of REFS
RefsInOrder(S) ==
  LET F[i \in 0..Len(REFS)] ==
        IF i = 0 THEN <<>>
        ELSE IF REFS[i] \in S THEN Append(F[i - 1], REFS[i]) ELSE F[i - 1]
  IN F[Len(REFS)]

RefSets == { S \in SUBSET { REFS[i] : i \in 1..Len(REFS) } : Cardinality(S) <= MaxRefs }

InitSchema ==
  /\ navigation = Arr(<<>>)
  /\ open = 0
  /\ path = <<>>
  /\ nexts = Undefined
  /\ pc = "schemas"
  /\ options = [idPrefix |-> idPrefixDefault, shared |-> sharedDefault,
                urlPrefix |-> urlPrefixDefault]
  /\ currentPage = <<>>
  /\ paths = <<>>
  /\ stdout = <<>>
  /\ stderr = <<>>
  /\ exitCode = 0
  /\ IdleInject
  /\ IdleMerge
  /\ IdleWalk
  /\ files \in [SCHEMA_FILES -> { RefsInOrder(S) : S \in RefSets }]
  /\ schemaQueue = <<mainSchemaPath>>
  /\ processedPaths = {}
  /\ loadedSchemas = <<>>
  /\ loads = [p \in SCHEMA_FILES |-> 0]

\* mutant of AlreadyProcessed: no path counts as processed
AlreadyProcessed_Never(absolutePath, processed) == FALSE

\* processedPaths.has(absolutePath), lines 134 and 159
AlreadyProcessed(absolutePath, processed) == absolutePath \in processed

\* lines 157-162 from reference i on: the queue after the pushes, or Throw
RECURSIVE PushRefs(_, _, _, _)
PushRefs(refs, i, queue, processed) ==
  IF i > Len(refs) THEN Arr(queue)
  ELSE LET resolvedPath == resolveSchemaPath(refs[i])
       IN IF IsThrow(resolvedPath) THEN Throw
          ELSE IF IsString(resolvedPath)
                  /\ ~AlreadyProcessed(PathResolve(resolvedPath.s), processed)
            THEN PushRefs(refs, i + 1, Append(queue, resolvedPath.s), processed)
          ELSE PushRefs(refs, i + 1, queue, processed)

\* loadedSchemas.set(key, value) on a Map
MapSet(map, key, value) ==
  IF \E j \in 1..Len(map) : map[j].k = key
    THEN [j \in 1..Len(map) |-> IF map[j].k = key THEN [k |-> key, v |-> value] ELSE map[j]]
    ELSE Append(map, [k |-> key, v |-> value])

\* lines 130-136: the path taken from the queue was processed before
SkipProcessed ==
  /\ pc = "schemas"
  /\ schemaQueue # <<>>
  /\ AlreadyProcessed(PathResolve(Head(schemaQueue)), processedPaths)
  /\ schemaQueue' = Tail(schemaQueue)
  /\ UNCHANGED <<navigation, open, path, nexts, pc, processVars, injectVars, mergeVars, walkVars,
                 files, processedPaths, loadedSchemas, loads>>

\* lines 130-163: the path taken from the queue is marked, its file is loaded
\* and stored, and the files it refers to are queued
LoadSchema ==
  /\ pc = "schemas"
  /\ schemaQueue # <<>>
  /\ LET absolutePath == PathResolve(Head(schemaQueue))
         processed == processedPaths \cup {absolutePath}
         queue == PushRefs(files[absolutePath], 1, Tail(schemaQueue), processed)
     IN /\ ~AlreadyProcessed(absolutePath, processedPaths)
        /\ processedPaths' = processed
        /\ loads' = [loads EXCEPT ![absolutePath] = @ + 1]
        /\ loadedSchemas' = MapSet(loadedSchemas, absolutePath, files[absolutePath])
        /\ IF IsThrow(queue)
             THEN /\ pc' = "failed"
                  /\ UNCHANGED schemaQueue
             ELSE /\ schemaQueue' = queue.a
                  /\ UNCHANGED pc
  /\ UNCHANGED <<navigation, open, path, nexts, processVars, injectVars, mergeVars, walkVars,
                 files>>

\* line 165: return loadedSchemas
ReturnLoaded ==
  /\ pc = "schemas"
  /\ schemaQueue = <<>>
  /\ pc' = "loaded"
  /\ UNCHANGED <<navigation, open, path, nexts, processVars, toolVars>>

NextSchema == SkipProcessed \/ LoadSchema \/ ReturnLoaded

\* loadAllSchemas called for the main schema
SpecSchema == InitSchema /\ [][NextSchema]_vars

-----------------------------------------------------------------------------
(* C19. loadAllSchemas prevents reference loops: whatever the $ref values  *)
(* of the files are, cycles and self references included, the loop ends,   *)
(* every absolute path is loaded and stored at most once, and the files    *)
(* that are loaded when the function returns are those that can be reached *)
(* from the main schema through file references.                           *)

\* the files a file refers to
RefTargets(p) ==
  { resolveSchemaPath(files[p][i]).s :
      i \in { k \in 1..Len(files[p]) : IsString(resolveSchemaPath(files[p][k])) } }

\* the files reached from the main schema in at most n steps
RECURSIVE ReachableIn(_)
ReachableIn(n) ==
  IF n = 0 THEN {PathResolve(mainSchemaPath)}
  ELSE ReachableIn(n - 1) \cup UNION { RefTargets(p) : p \in ReachableIn(n - 1) }

Reachable == ReachableIn(Cardinality(SCHEMA_FILES))

LoadedPaths == { loadedSchemas[j].k : j \in 1..Len(loadedSchemas) }

\* what is left to do: every file not yet processed can be loaded once and can
\* add its references to the queue; every iteration takes a path off the queue
Remaining ==
  Cardinality(SCHEMA_FILES \ processedPaths) * (MaxRefs + 1) + Len(schemaQueue)

C19_LoadedOnce ==
  /\ \A p \in SCHEMA_FILES : loads[p] <= 1
  /\ Len(loadedSchemas) = Cardinality(LoadedPaths)
  /\ LoadedPaths = processedPaths
  /\ pc = "loaded" => LoadedPaths = Reachable

\* an iteration of the loop leaves less to do
C19_LoopEnds == (pc = "schemas" /\ schemaQueue # <<>>) => Remaining' < Remaining

C19_NoReferenceLoops == []C19_LoadedOnce /\ [][C19_LoopEnds]_vars

\* the main schema and a second file refer to each other, and both are loaded
C19_Witness ==
  /\ pc = "loaded"
  /\ "/s/B.json" \in RefTargets("/s/A.json")
  /\ "/s/A.json" \in RefTargets("/s/B.json")
  /\ LoadedPaths = {"/s/A.json", "/s/B.json"}

-----------------------------------------------------------------------------
(* list_pages.js (src/unnamed/part_000): extractPages, lines 15-25, and    *)
(* the run of the program, lines 27-33.                                    *)

\* the --root-path of the runs
rootPath == "pages"

\* path.join of arguments that are plain relative paths: the empty ones and
\* "." go, the others are joined with "/"
PathJoinPlain(args) == Join(Segments(args), sep)

RECURSIVE extractPages(_, _, _)

\* the loop of line 20 over the tracks of a GroupSet, from track j on
RECURSIVE ExtractTracks(_, _, _, _)
ExtractTracks(es, j, trackPath, opts) ==
  IF j > Len(es) THEN [out |-> <<>>, thrown |-> FALSE]
  ELSE LET r == extractPages(es[j].v, PathJoinPlain(<<trackPath, es[j].k>>), opts)
       IN IF r.thrown THEN r
          ELSE LET rest == ExtractTracks(es, j + 1, trackPath, opts)
               IN [out |-> r.out \o rest.out, thrown |-> rest.thrown]

\* the loop of line 16 over the items of a sequence, from item i on
RECURSIVE ExtractItems(_, _, _, _)

\* mutant of ExtractItems: a page of the root sequence is printed without the
\* shared directory
ExtractItems_NoShared(items, i, trackPath, opts) ==
  IF i > Len(items.a) THEN [out |-> <<>>, thrown |-> FALSE]
  ELSE LET r == IF IsString(items.a[i])
                  THEN [out |-> <<PathJoinPlain(<<opts.rootPath, trackPath, items.a[i].s>>)>>,
                        thrown |-> FALSE]
                ELSE IF items.a[i].t = "obj"
                  THEN ExtractTracks(items.a[i].e, 1, trackPath, opts)
                ELSE [out |-> <<>>, thrown |-> TRUE]
       IN IF r.thrown THEN r
          ELSE LET rest == ExtractItems(items, i + 1, trackPath, opts)
               IN [out |-> r.out \o rest.out, thrown |-> rest.thrown]

\* mutant of ExtractItems: the items of a sequence are listed from the last to
\* the first
ExtractItems_Reversed(items, i, trackPath, opts) ==
  IF i > Len(items.a) THEN [out |-> <<>>, thrown |-> FALSE]
  ELSE LET r == IF IsString(items.a[i])
                  THEN [out |-> <<PathJoinPlain(<<opts.rootPath,
                                                  IF trackPath # "" THEN trackPath
                                                  ELSE opts.shared,
                                                  items.a[i].s>>)>>,
                        thrown |-> FALSE]
                ELSE IF items.a[i].t = "obj"
                  THEN ExtractTracks(items.a[i].e, 1, trackPath, opts)
                ELSE [out |-> <<>>, thrown |-> TRUE]
       IN IF r.thrown THEN r
          ELSE LET rest == ExtractItems(items, i + 1, trackPath, opts)
               IN [out |-> rest.out \o r.out, thrown |-> rest.thrown]

ExtractItems(items, i, trackPath, opts) ==
  IF i > Len(items.a) THEN [out |-> <<>>, thrown |-> FALSE]
  ELSE LET r == IF IsString(items.a[i])
                  THEN [out |-> <<PathJoinPlain(<<opts.rootPath,
                                                  IF trackPath # "" THEN trackPath
                                                  ELSE opts.shared,
                                                  items.a[i].s>>)>>,
                        thrown |-> FALSE]
                ELSE IF items.a[i].t = "obj"
                  THEN ExtractTracks(items.a[i].e, 1, trackPath, opts)
                ELSE [out |-> <<>>, thrown |-> TRUE]
       IN IF r.thrown THEN r
          ELSE LET rest == ExtractItems(items, i + 1, trackPath, opts)
               IN [out |-> r.out \o rest.out, thrown |-> rest.thrown]

\* the lines extractPages prints, and whether it ends by a throw
extractPages(items, trackPath, opts) == ExtractItems(items, 1, trackPath, opts)

ListErrorMessage == "Error processing navigation file"

InitList ==
  /\ navigation = Arr(<<>>)
  /\ open = 0
  /\ path = <<>>
  /\ nexts = Undefined
  /\ pc = "loading"
  /\ options = [rootPath |-> rootPath, shared |-> sharedDefault]
  /\ currentPage = <<>>
  /\ paths = <<>>
  /\ stdout = <<>>
  /\ stderr = <<>>
  /\ exitCode = 0
  /\ IdleInject
  /\ IdleSchema
  /\ IdleMerge
  /\ IdleWalk

\* lines 27-33: the pages of the loaded navigation are printed
ListPages ==
  /\ pc = "loading"
  /\ open = 0
  /\ LET r == extractPages(navigation, "", options)
     IN /\ stdout' = stdout \o r.out
        /\ stderr' = IF r.thrown THEN Append(stderr, ListErrorMessage) ELSE stderr
        /\ exitCode' = IF r.thrown THEN 1 ELSE exitCode
  /\ pc' = "listed"
  /\ UNCHANGED <<navigation, open, path, nexts, options, currentPage, paths, toolVars>>

NextList == Load \/ ListPages

\* list_pages.js run on a navigation
SpecList == InitList /\ [][NextList]_vars

-----------------------------------------------------------------------------
(* C20. extractPages prints exactly one path per leaf of the navigation,   *)
(* in document order (depth first, tracks in the order they are declared): *)
(* a leaf of the root sequence under the shared directory, a nested leaf   *)
(* under the names of all tracks that enclose it; empty tracks print       *)
(* nothing.                                                                *)

\* the place of a leaf in document order
Rank(xs, pos) == 1 + Cardinality({ q \in LeafPositions(xs) : Before(q, pos) })

\* the directory a leaf is listed under
DirectoryOf(xs, pos) ==
  IF Crumb(xs, pos) = <<>> THEN options.shared ELSE Join(Crumb(xs, pos), "/")

-----------------------------------------------------------------------------
(* substitutions_merge.js: the files are parsed and folded into result     *)
(* with mergeDeep, then result is printed.                                 *)
(*                                                                         *)
(* mergeDeep mutates its target and stores the values of its source by     *)
(* reference, so the objects of the process are kept in a heap: a          *)
(* sequence of objects, an object being the sequence of its own entries in *)
(* insertion order, and [t |-> "ref", at |-> i] the reference to the i-th.  *)
(* Every object has the prototype Object.prototype, which is the first     *)
(* object of the heap.  The mappings of the files have the keys a, b and   *)
(* __proto__ (JSON.parse and yaml.load make it an own property); a value   *)
(* is a number, the empty array or a mapping, and a YAML alias is the      *)
(* value of the anchored top-level key once more.                          *)

MaxFiles == 2

Addr(a) == [t |-> "ref", at |-> a]
Alias(key) == [t |-> "alias", of |-> key]
Entry(key, value) == [k |-> key, v |-> value]

IsRef(x) == x.t = "ref"
IsMapping(x) == x.t = "obj"

ObjectPrototype == 1

protoKey == "__proto__"

\* the own entry of key in the entries es, or 0
RECURSIVE OwnIndex(_, _, _)
OwnIndex(es, key, i) ==
  IF i > Len(es) THEN 0
  ELSE IF es[i].k = key THEN i
  ELSE OwnIndex(es, key, i + 1)

HasOwn(h, at, key) == OwnIndex(h[at], key, 1) # 0

\* target[key], lines 18-19: the own property, else the accessor __proto__
\* of Object.prototype, else the property inherited from Object.prototype
Get(h, at, key) ==
  IF HasOwn(h, at, key) THEN h[at][OwnIndex(h[at], key, 1)].v
  ELSE IF key = protoKey
    THEN IF at = ObjectPrototype THEN Null ELSE Addr(ObjectPrototype)
  ELSE IF at # ObjectPrototype /\ HasOwn(h, ObjectPrototype, key)
    THEN h[ObjectPrototype][OwnIndex(h[ObjectPrototype], key, 1)].v
  ELSE Undefined

\* the heap h as the outcome of a statement that did not throw
Heap(h) == [t |-> "heap", h |-> h]

\* target[key] = value, line 32; the heap after it, or Throw.  An assignment
\* to __proto__ calls the setter of Object.prototype: it ignores a value that
\* is not an object, and throws a TypeError for Object.prototype itself.
Set(h, at, key, value) ==
  IF HasOwn(h, at, key)
    THEN Heap([h EXCEPT ![at][OwnIndex(h[at], key, 1)].v = value])
  ELSE IF key = protoKey
    THEN IF ~IsRef(value) THEN Heap(h)
         ELSE IF at = ObjectPrototype THEN Throw
         ELSE Heap(h)
  ELSE Heap([h EXCEPT ![at] = Append(@, Entry(key, value))])

\* lines 21-28: both values are non-null objects that are not arrays
BothMappings(srcVal, tgtVal) == IsRef(srcVal) /\ IsRef(tgtVal)

\* lines 13-38; target is an address, source the reference to a mapping or
\* another value.  Gives the heap after the call with the value returned, or
\* Throw.
RECURSIVE mergeDeep(_, _, _)
RECURSIVE MergeKeys(_, _, _, _)

\* lines 16-35: the own keys of source from the i-th on
MergeKeys(h, target, source, i) ==
  IF i > Len(h[source]) THEN Heap(h)
  ELSE LET key == h[source][i].k
           srcVal == h[source][i].v
           tgtVal == Get(h, target, key)
           after == IF BothMappings(srcVal, tgtVal)
                      THEN mergeDeep(h, tgtVal.at, srcVal)
                      ELSE Set(h, target, key, srcVal)
       IN IF IsThrow(after) THEN Throw
          ELSE MergeKeys(after.h, target, source, i + 1)

mergeDeep(h, target, source) ==
  IF ~IsRef(source) THEN [t |-> "heap", h |-> h, value |-> source]
  ELSE LET after == MergeKeys(h, target, source.at, 1)
       IN IF IsThrow(after) THEN Throw
          ELSE [t |-> "heap", h |-> after.h, value |-> Addr(target)]

\* JSON.parse / yaml.load, lines 63-74: the objects of a document are added
\* to the heap; gives the heap and the value of the document
RECURSIVE Parse(_, _)
RECURSIVE ParseEntries(_, _, _, _)
ParseEntries(h, es, i, own) ==
  IF i > Len(es) THEN [heap |-> h, own |-> own]
  ELSE IF es[i].v.t = "alias"
    THEN ParseEntries(h, es, i + 1,
                      Append(own, Entry(es[i].k, own[OwnIndex(own, es[i].v.of, 1)].v)))
  ELSE LET r == Parse(h, es[i].v)
       IN ParseEntries(r.heap, es, i + 1, Append(own, Entry(es[i].k, r.value)))

Parse(h, doc) ==
  IF ~IsMapping(doc) THEN [heap |-> h, value |-> doc]
  ELSE LET r == ParseEntries(h, doc.e, 1, <<>>)
       IN [heap |-> Append(r.heap, r.own), value |-> Addr(Len(r.heap) + 1)]

\* JSON.stringify, line 86: the own properties, the referenced objects in full
RECURSIVE Stringify(_, _)
RECURSIVE StringifyEntries(_, _, _)
StringifyEntries(h, es, i) ==
  IF i > Len(es) THEN <<>>
  ELSE <<Entry(es[i].k, Stringify(h, es[i].v))>> \o StringifyEntries(h, es, i + 1)

Stringify(h, value) ==
  IF IsRef(value) THEN Obj(StringifyEntries(h, h[value.at], 1)) ELSE value

\* the documents of the files
INNER == { <<>>,
           <<Entry("a", Num(1))>>,
           <<Entry("b", Obj(<<Entry("a", Num(2))>>))>> }

A_VALUES == {Undefined, Num(1), Arr(<<>>)} \cup { Obj(es) : es \in INNER }

B_VALUES == {Undefined, Num(2), Obj(<<Entry("a", Num(2))>>), Alias("a")}

PROTO_VALUES ==
  { Undefined, Num(1),
    Obj(<<Entry("a", Obj(<<Entry("b", Num(1))>>))>>),
    Obj(<<Entry(protoKey, Obj(<<>>))>>) }

Present(key, value) == IF value = Undefined THEN <<>> ELSE <<Entry(key, value)>>

DOCUMENTS ==
  { Obj(Present("a", a) \o Present("b", b) \o Present(protoKey, p)) :
      <<a, b, p>> \in { t \in A_VALUES \X B_VALUES \X PROTO_VALUES :
                          t[2] = Alias("a") => IsMapping(t[1]) } }

MergeErrorMessage == "TypeError"

\* line 50: let result = {}
resultAt == 2

InitMerge ==
  /\ navigation = Arr(<<>>)
  /\ open = 0
  /\ path = <<>>
  /\ nexts = Undefined
  /\ pc = "merging"
  /\ options = <<>>
  /\ currentPage = <<>>
  /\ paths = <<>>
  /\ stdout = <<>>
  /\ stderr = <<>>
  /\ exitCode = 0
  /\ IdleInject
  /\ IdleSchema
  /\ IdleWalk
  /\ heap = << <<>>, <<>> >>
  /\ inputs \in UNION { [1..n -> DOCUMENTS] : n \in 1..MaxFiles }
  /\ merged = 0

\* lines 52-84, one turn of the loop: the next file is parsed and merged
MergeFile ==
  /\ pc = "merging"
  /\ merged < Len(inputs)
  /\ LET data == Parse(heap, inputs[merged + 1])
         r == mergeDeep(data.heap, resultAt, data.value)
     IN IF IsThrow(r)
          THEN /\ stderr' = Append(stderr, MergeErrorMessage)
               /\ exitCode' = 1
               /\ pc' = "exited"
               /\ UNCHANGED <<heap, merged>>
          ELSE /\ heap' = r.h
               /\ merged' = merged + 1
               /\ UNCHANGED <<stderr, exitCode, pc>>
  /\ UNCHANGED <<navigation, open, path, nexts, options, currentPage, paths, stdout,
                 injectVars, schemaVars, inputs, walkVars>>

\* line 86: the result is printed
PrintResult ==
  /\ pc = "merging"
  /\ merged = Len(inputs)
  /\ stdout' = Append(stdout, Stringify(heap, Addr(resultAt)))
  /\ pc' = "exited"
  /\ UNCHANGED <<navigation, open, path, nexts, options, currentPage, paths, stderr,
                 exitCode, toolVars>>

NextMerge == MergeFile \/ PrintResult

SpecMerge == InitMerge /\ [][NextMerge]_vars

-----------------------------------------------------------------------------
(* C21.  The deep merge of the documents as trees, by the stated rule.     *)

\* the entries of a document with every alias replaced by the value it
\* stands for
RECURSIVE Expand(_, _, _)
Expand(es, i, own) ==
  IF i > Len(es) THEN own
  ELSE IF es[i].v.t = "alias"
    THEN Expand(es, i + 1,
                Append(own, Entry(es[i].k, own[OwnIndex(own, es[i].v.of, 1)].v)))
  ELSE Expand(es, i + 1, Append(own, es[i]))

Keys(es) == { es[i].k : i \in 1..Len(es) }
ValueOf(es, key) == es[OwnIndex(es, key, 1)].v

\* the later value replaces the earlier one unless both are mappings, which
\* are merged by the same rule; a key of one side only keeps its value
RECURSIVE DeepMerge(_, _)
DeepMerge(earlier, later) ==
  IF IsMapping(earlier) /\ IsMapping(later)
    THEN Obj([ i \in 1..Len(earlier.e) |->
                 IF earlier.e[i].k \in Keys(later.e)
                   THEN Entry(earlier.e[i].k,
                              DeepMerge(earlier.e[i].v, ValueOf(later.e, earlier.e[i].k)))
                   ELSE earlier.e[i] ]
             \o SelectSeq(later.e, LAMBDA entry : entry.k \notin Keys(earlier.e)))
    ELSE later

\* the fold of DeepMerge over the first n documents, from the empty mapping
RECURSIVE MergedDocuments(_, _)
MergedDocuments(docs, n) ==
  IF n = 0 THEN Obj(<<>>)
  ELSE DeepMerge(MergedDocuments(docs, n - 1), Obj(Expand(docs[n].e, 1, <<>>)))

\* a printed value as a mapping from keys to values, whatever the order of
\* the keys
RECURSIVE AsMap(_)
AsMap(value) ==
  IF IsMapping(value)
    THEN [ k \in Keys(value.e) |-> AsMap(ValueOf(value.e, k)) ]
    ELSE value

Printed == pc = "exited" /\ exitCode = 0 /\ Len(stdout) = 1

\* C21: the printed result is the deep merge of the files from left to
\* right: for a key of both sides the later value replaces the earlier one
\* unless both are mappings, which are merged by the same rule, and a key
\* that only an earlier file defines is in the result with its value
\* unchanged.
C21_AsStated ==
  Printed => AsMap(stdout[1]) = AsMap(MergedDocuments(inputs, Len(inputs)))

\* the documents in which the merge is the stated one: no key __proto__ and
\* no alias
RECURSIVE IsPlain(_)
IsPlain(value) ==
  IsMapping(value) =>
    \A i \in 1..Len(value.e) :
      /\ value.e[i].k # protoKey
      /\ value.e[i].v.t # "alias"
      /\ IsPlain(value.e[i].v)

C21_PlainDocuments ==
  (Printed /\ \A i \in 1..Len(inputs) : IsPlain(inputs[i])) =>
    stdout[1] = MergedDocuments(inputs, Len(inputs))

-----------------------------------------------------------------------------
(* getNexts called on its own, lines 90-100: on the loaded navigation or   *)
(* on one of its elements, with a breadcrumb of the caller.                *)

BREADCRUMBS == {<<>>, <<"a", "b">>}

\* the navigation and its elements: a sequence, leaves and GroupSets
Subjects(xs) == {xs} \cup { xs.a[i] : i \in 1..Len(xs.a) }

CallGetNexts(node, directions) ==
  /\ pc = "loading"
  /\ open = 0
  /\ subject' = node
  /\ breadcrumb' = directions
  /\ nexts' = getNexts(node, directions)
  /\ pc' = "returned"
  /\ UNCHANGED <<navigation, open, path, processVars, injectVars, schemaVars, mergeVars,
                 visited>>

NextGetNexts ==
  Load \/ \E node \in Subjects(navigation), directions \in BREADCRUMBS :
            CallGetNexts(node, directions)

SpecGetNexts == Init /\ [][NextGetNexts]_vars

Returned == pc = "returned"

-----------------------------------------------------------------------------
(* C22.  The first descendants of a node, as the specification defines     *)
(* them: the paths of a node, or the empty marker.                         *)

EmptyMarker == [empty |-> TRUE, paths |-> <<>>]
Descendants(ps) == [empty |-> FALSE, paths |-> ps]

RECURSIVE Concatenation(_)
Concatenation(results) ==
  IF results = <<>> THEN <<>>
  ELSE Head(results).paths \o Concatenation(Tail(results))

RECURSIVE ReferenceDescendants(_, _)
ReferenceDescendants(node, crumb) ==
  IF IsString(node) THEN Descendants(<<Append(crumb, node.s)>>)
  ELSE IF IsArray(node)
    THEN IF node.a = <<>> THEN EmptyMarker
         ELSE ReferenceDescendants(node.a[1], crumb)
  ELSE LET ofTrack == [ j \in 1..Len(node.e) |->
                          ReferenceDescendants(node.e[j].v, Append(crumb, node.e[j].k)) ]
           nonEmpty == SelectSeq(ofTrack, LAMBDA r : ~r.empty)
       IN IF nonEmpty = <<>> THEN EmptyMarker
          ELSE Descendants(Concatenation(nonEmpty))

\* what getNexts returns for it: `true` for the marker, else the array of paths
AsReturned(r) ==
  IF r.empty THEN Bool(TRUE)
  ELSE Arr([ i \in 1..Len(r.paths) |-> Arr(r.paths[i]) ])

\* C22: getNexts(node, breadcrumb) is the first-descendant function: a Leaf
\* gives the one path breadcrumb + [name], a sequence gives what its first
\* element gives and the empty marker if it has none, a GroupSet gives the
\* non-empty results of its tracks in track order, each with the breadcrumb
\* extended by the track's name, and the empty marker if every track is empty.
C22_FirstDescendants ==
  Returned => nexts = AsReturned(ReferenceDescendants(subject, breadcrumb))

\* a GroupSet with an empty track before a track with a page, called with a
\* breadcrumb
C22_Witness ==
  /\ Returned
  /\ subject.t = "obj"
  /\ Len(subject.e) = 2
  /\ subject.e[1].v = Arr(<<>>)
  /\ breadcrumb = <<"a", "b">>
  /\ nexts = Arr(<<Arr(<<"a", "b", subject.e[2].k, "a">>)>>)

-----------------------------------------------------------------------------
(* C23.  The program run for the last page of a track of a GroupSet with   *)
(* several tracks.  The navigation may end with one more section, a        *)
(* GroupSet of one track with one page, as where a track name is repeated. *)

\* the loader reads a closing section: a mapping of one track with one page
LoadSection(nm, page) ==
  /\ pc = "loading"
  /\ open = 0
  /\ Size(navigation) = MaxNodes - 1
  /\ navigation' = Arr(Append(navigation.a, Obj(<<[k |-> nm, v |-> Arr(<<Str(page)>>)]>>)))
  /\ UNCHANGED <<open, path, nexts, pc, processVars, toolVars>>

\* the leaves that are the last element of a track of a GroupSet with several
\* tracks, and the leaf that their path identifies
TrackEnds(xs) ==
  { pos \in LeafPositions(xs) :
      /\ Len(pos) > 1
      /\ IsLast(xs, pos)
      /\ Len(ElemAt(xs, Parent(pos)).e) > 1
      /\ pos = FirstPos(xs, PathTo(xs, pos)) }

NextTracks ==
  \/ Load
  \/ \E nm \in NAMES, page \in NAMES : LoadSection(nm, page)
  \/ \E pos \in TrackEnds(navigation) : Resolve(PathTo(navigation, pos))

SpecTracks == Init /\ [][NextTracks]_vars

\* the paths of the leaves in the other tracks of the GroupSet that holds pos
SiblingPaths(xs, pos) ==
  { PathTo(xs, q) : q \in { q \in LeafPositions(xs) :
                              /\ Len(q) >= Len(pos)
                              /\ SubSeq(q, 1, Len(pos) - 2) = Parent(pos)
                              /\ q[Len(pos) - 1] # pos[Len(pos) - 1] } }

\* the tree in which the GroupSet that holds pos has the track of pos only
RECURSIVE OwnTrackOnly(_, _)
OwnTrackOnly(xs, pos) ==
  IF Len(pos) = 3
    THEN Arr([xs.a EXCEPT ![pos[1]] = Obj(<<@.e[pos[2]]>>)])
    ELSE Arr([xs.a EXCEPT ![pos[1]] =
                Obj([@.e EXCEPT ![pos[2]] =
                       [k |-> @.k,
                        v |-> OwnTrackOnly(@.v, SubSeq(pos, 3, Len(pos)))]])])

ResultPaths == { nexts.a[i].a : i \in 1..Len(nexts.a) }

AtTrackEnd ==
  /\ Resolved
  /\ \E pos \in TrackEnds(navigation) : PathTo(navigation, pos) = path

-----------------------------------------------------------------------------
(* A reader follows the next page from the start, lines 47-54 called again *)
(* and again: findNexts of the empty path first, then, as long as there is *)
(* exactly one next page, findNexts of that page.                          *)

\* longest walk of the model: one page more than a navigation has
MaxWalk == MaxNodes + 1

StartWalk ==
  /\ pc = "loading"
  /\ open = 0
  /\ path' = <<>>
  /\ nexts' = findNexts(navigation, <<>>)
  /\ visited' = <<>>
  /\ pc' = "walking"
  /\ UNCHANGED <<navigation, open, processVars, injectVars, schemaVars, mergeVars,
                 subject, breadcrumb>>

FollowNext ==
  /\ pc = "walking"
  /\ IsArray(nexts)
  /\ Len(nexts.a) = 1
  /\ Len(visited) < MaxWalk
  /\ path' = nexts.a[1].a
  /\ visited' = Append(visited, path')
  /\ nexts' = findNexts(navigation, path')
  /\ UNCHANGED <<navigation, open, pc, processVars, injectVars, schemaVars, mergeVars,
                 subject, breadcrumb>>

NextWalk == Load \/ StartWalk \/ FollowNext

SpecWalk == Init /\ [][NextWalk]_vars

-----------------------------------------------------------------------------
(* C24.  The walk and the page list.                                       *)

\* every GroupSet has exactly one track and no track is empty
RECURSIVE SingleTracked(_)
SingleTracked(xs) ==
  \A i \in 1..Len(xs.a) :
    xs.a[i].t = "obj" =>
      /\ Len(xs.a[i].e) = 1
      /\ xs.a[i].e[1].v.a # <<>>
      /\ SingleTracked(xs.a[i].e[1].v)

\* no two leaves have the same path
UniquePaths(xs) ==
  \A p, q \in LeafPositions(xs) : PathTo(xs, p) = PathTo(xs, q) => p = q

\* the line list_pages.js prints for the page with path p
ListedAs(p, opts) ==
  PathJoinPlain(<<opts.rootPath,
                  IF Len(p) = 1 THEN opts.shared ELSE Join(SubSeq(p, 1, Len(p) - 1), sep),
                  p[Len(p)]>>)

listOptions == [rootPath |-> rootPath, shared |-> options.shared]

Walking == pc = "walking"

-----------------------------------------------------------------------------
(* C25.  What findNexts returns is sound.                                  *)

\* the result is an array of paths of leaves of the tree
SoundPaths ==
  /\ IsArray(nexts)
  /\ \A i \in 1..Len(nexts.a) :
       /\ IsArray(nexts.a[i])
       /\ nexts.a[i].a # <<>>
       /\ nexts.a[i].a \in LeafPaths(navigation)

\* with unique leaf paths, the leaves of the result come after the current leaf
AfterCurrent ==
  (path # <<>> /\ UniquePaths(navigation)) =>
    \A i \in 1..Len(nexts.a) :
      /\ path \in LeafPaths(navigation)
      /\ Before(FirstPos(navigation, path), FirstPos(navigation, nexts.a[i].a))

\* C25 as stated: for every tree and every path, findNexts returns an array,
\* each of its paths is non-empty and is the path of a leaf of the tree (track
\* names, then the name of the leaf), and when the path is non-empty and leaf
\* paths are unique that leaf is after the current leaf in document order.
C25_AsStated == Resolved => (SoundPaths /\ AfterCurrent)

\* the same for the paths whose components are ordinary names
C25_OrdinaryPaths ==
  (Resolved /\ \A i \in 1..Len(path) : path[i] \in NAMES) => (SoundPaths /\ AfterCurrent)

-----------------------------------------------------------------------------
(* C26.  The program run for a path that several leaves of the navigation  *)
(* have.                                                                   *)

LeavesOf(xs, p) == { pos \in LeafPositions(xs) : PathTo(xs, pos) = p }

\* the paths that identify more than one leaf
SharedPaths(xs) == { p \in LeafPaths(xs) : Cardinality(LeavesOf(xs, p)) > 1 }

NextShared == Load \/ \E p \in SharedPaths(navigation) : Resolve(p)

SpecShared == Init /\ [][NextShared]_vars

\* the next page of the leaf at pos: the first descendants of the first
\* element after it, or after a GroupSet that encloses it, that has some
NextPageOf(xs, pos) == FirstNonEmpty(Following(xs, pos))

-----------------------------------------------------------------------------
(* C27.  The program run for a path that is next to the path of a leaf:    *)
(* the first track name dropped, a track name added in front, the first    *)
(* two components in the other order.  Such a path may be the path of      *)
(* another leaf.                                                           *)

NearPaths(xs) ==
  UNION { LET q == PathTo(xs, pos)
          IN {Tail(q) \o <<>>, <<q[1]>> \o q}
               \cup (IF Len(q) > 1 THEN {<<q[2], q[1]>> \o SubSeq(q, 3, Len(q))} ELSE {}) :
          pos \in LeafPositions(xs) } \ {<<>>}

NextNear == Load \/ \E p \in NearPaths(navigation) : Resolve(p)

SpecNear == Init /\ [][NextNear]_vars

\* findNextsHelper has found the current page: it returns neither false nor
\* throws
Matched(xs, p) ==
  LET found == findNextsHelper(xs, p, <<>>) IN ~IsThrow(found) /\ Truthy(found)

\* a leaf whose name is the last component of p, at another depth or in other
\* tracks than p says
Lookalikes(xs, p) ==
  { pos \in LeafPositions(xs) :
      ElemAt(xs, pos).s = p[Len(p)] /\ Crumb(xs, pos) # SubSeq(p, 1, Len(p) - 1) }

\* C27: a path of n components finds a current page exactly if a leaf of its
\* last name is reached through its n-1 first components as track names, in
\* that order, and the next page is then the one of that leaf; a leaf of that
\* name at another depth or in other tracks is not taken for the current page.
C27_DepthExact ==
  Resolved =>
    /\ Matched(navigation, path) <=> path \in LeafPaths(navigation)
    /\ IF path \in LeafPaths(navigation)
         THEN nexts = NextPageOf(navigation, FirstPos(navigation, path))
         ELSE nexts = Arr(<<>>)

\* the path names no leaf, but a leaf of its last name is one track deeper
\* and has a next page
C27_Witness ==
  /\ Resolved
  /\ Len(path) = 2
  /\ path \notin LeafPaths(navigation)
  /\ nexts = Arr(<<>>)
  /\ \E pos \in Lookalikes(navigation, path) :
       /\ Len(pos) = 5
       /\ NextPageOf(navigation, pos) # Arr(<<>>)

-----------------------------------------------------------------------------
(* C28.  list_pages.js and next_page_resolver.js run on one navigation     *)
(* with the same --shared: the resolver is run for a page that the lister  *)
(* prints.  Tracks may have the name of the shared directory.              *)

ROUND_TRIP_PAGES == {"a", "b"}
ROUND_TRIP_TRACKS == {"a", sharedDefault}

InitRoundTrip ==
  /\ navigation = Arr(<<>>)
  /\ open = 0
  /\ path = <<>>
  /\ nexts = Undefined
  /\ pc = "loading"
  /\ options = [idPrefix |-> idPrefixDefault, shared |-> sharedDefault,
                urlPrefix |-> urlPrefixDefault, rootPath |-> rootPath]
  /\ currentPage = <<>>
  /\ paths = <<>>
  /\ stdout = <<>>
  /\ stderr = <<>>
  /\ exitCode = 0
  /\ IdleInject
  /\ IdleSchema
  /\ IdleMerge
  /\ IdleWalk

LoadRoundTrip ==
  \/ \E nm \in ROUND_TRIP_PAGES : LoadLeaf(nm)
  \/ \E nm \in ROUND_TRIP_TRACKS : LoadGroupSet(nm)
  \/ \E nm \in ROUND_TRIP_TRACKS : LoadTrack(nm)
  \/ EndGroupSet

\* the line extractPages prints for the leaf at pos, and the page it names:
\* the characters after the root directory
ListedLine(xs, pos) == extractPages(xs, "", listOptions).out[Rank(xs, pos)]

ListedPage(xs, pos) ==
  CHOOSE page \in { PageText(PathTo(xs, pos)), PageText(<<options.shared>> \o PathTo(xs, pos)) } :
    options.rootPath \o sep \o Join(page, "") = ListedLine(xs, pos)

NextRoundTrip ==
  LoadRoundTrip \/ \E pos \in LeafPositions(navigation) : Main(ListedPage(navigation, pos))

SpecRoundTrip == InitRoundTrip /\ [][NextRoundTrip]_vars

\* C28 as stated: for every leaf, the page that list_pages prints for it,
\* given as --current-page, becomes the path of that leaf, and findNexts
\* finds the current page with it, also when a track has the name of the
\* shared directory.
C28_AsStated ==
  Exited =>
    \A pos \in LeafPositions(navigation) :
      ListedPage(navigation, pos) = currentPage =>
        /\ path = PathTo(navigation, pos)
        /\ Matched(navigation, path)

\* the same for the leaves that are not in a track of the root sequence that
\* has the name of the shared directory
C28_OtherTracks ==
  Exited =>
    \A pos \in LeafPositions(navigation) :
      (/\ ListedPage(navigation, pos) = currentPage
       /\ (Len(pos) > 1 => Crumb(navigation, pos)[1] # options.shared)) =>
        /\ path = PathTo(navigation, pos)
        /\ Matched(navigation, path)

-----------------------------------------------------------------------------
(* C29. The resolution of path variables in preprocessTemplate always      *)
(* terminates: the loop is never followed beyond its limit of 100          *)
(* substitutions, and a run that reaches the limit has ended with the      *)
(* error 'Exceeded maximum path resolution iterations' and status 1, in    *)
(* production and in development mode, whatever the placeholder.           *)
C29_AsStated ==
  /\ iterations <= iterationLimit + 1
  /\ iterations > iterationLimit =>
       /\ pc = "exited"
       /\ exitCode = 1
       /\ stderr # <<>>
       /\ stderr[Len(stderr)] = ExceededMessage

\* with the limit of part_001 and without --development the loop does stop
C29_LimitedInProduction ==
  (options.script = "part_001" /\ options.production) => C29_AsStated

====
